---- MODULE Spec2Model ----
(***************************************************************************)
(* Markdown Pro (markdown_editor_pro.py): the highlight annotator          *)
(* (MarkdownTab.highlight_syntax), the preview renderer                    *)
(* (PreviewPanel.update_preview / _render_line), markdown_to_html, the     *)
(* settings file (load_settings / save_settings), the event handlers of a  *)
(* tab's edit buffer and the editor window with its notebook of tabs       *)
(* (MarkdownEditorPro).                                                    *)
(*                                                                         *)
(* Texts are sequences of one-character strings.  Offsets are 0-based, as  *)
(* in Python: At(s, i) is s[i] and Slice(s, a, b) is s[a:b].               *)
(***************************************************************************)
EXTENDS Integers, Sequences, FiniteSets, TLC

VARIABLES
    text,       \* content of the edit buffer (tk.Text of the tab), without Tk's final newline
    tags,       \* tag ranges on the edit buffer: set of [tag, start, end]
    hl,         \* highlight_syntax has run on the buffer as it is
    preview,    \* the preview document: sequence of blocks [cat, runs]
    rendered,   \* the markdown_text argument of the last PreviewPanel.update_preview
    pv,         \* PreviewPanel.update_preview has run
    line,       \* _render_line: its argument
    pos,        \* _render_line: the cursor
    runs,       \* _render_line: the inserts made so far
    pc,         \* _render_line: "off", "call", "loop", "done"
    cursor,     \* offset of the insert mark (tk.INSERT) in the edit buffer
    pending,    \* the events of the edit buffer still to be handled: "Modified", "KeyRelease"
    html,       \* the html markdown_to_html last built, <<>> before
    settings_file,  \* what SETTINGS_FILE holds
    settings,   \* the mapping load_settings() returned (MarkdownEditorPro.settings)
    loaded,     \* settings is what load_settings() returns for settings_file as it is
    tabs,       \* MarkdownEditorPro.tabs: tab_id -> the tab's buffer, flags, name and notebook title
    tab_counter,    \* MarkdownEditorPro.tab_counter
    selected,   \* tab_id of the tab notebook.select() names, 0 while there is none
    preview_visible,    \* MarkdownEditorPro.preview_visible
    window,     \* the root window: "open" or "destroyed"
    dialog,     \* the modal message box that is up: <<>>, <<"close", tab_id>> or <<"closing">>
    response,   \* the answer to the message box the last step closed: <<box, answer>>,
                \* NoResponse when it closed none
    disk,       \* the markdown files: file name -> content
    events      \* the notebook's and the tabs' events still to be handled: <<name, tab_id>>

renderVars == <<line, pos, runs, pc>>
editVars == <<cursor, pending>>
settingsVars == <<settings_file, settings, loaded>>
appVars == <<tabs, tab_counter, selected, preview_visible, window, dialog, response, disk, events>>

vars == <<text, tags, hl, preview, rendered, pv, line, pos, runs, pc,
          cursor, pending, html, settings_file, settings, loaded,
          tabs, tab_counter, selected, preview_visible, window, dialog, response, disk, events>>

NoResponse == <<"none", "none">>

\* the editor's window is not part of the behaviours that exercise one function
AppIdle ==
    /\ tabs = <<>>
    /\ tab_counter = 0
    /\ selected = 0
    /\ preview_visible = TRUE
    /\ window = "open"
    /\ dialog = <<>>
    /\ response = NoResponse
    /\ disk = <<>>
    /\ events = {}

NL == "\n"
STAR == "*"
\* the backtick character; a token, since a string literal cannot hold a lone backtick
TICK == "BACKTICK"

-----------------------------------------------------------------------------
(* Python string primitives *)

MinOf(S) == CHOOSE x \in S : \A y \in S : x <= y

At(s, i) == s[i + 1]

\* s[a:b] for 0 <= a, with Python's clamping of b
Slice(s, a, b) == SubSeq(s, a + 1, IF b < Len(s) THEN b ELSE Len(s))

\* s[a:]
SliceFrom(s, a) == SubSeq(s, a + 1, Len(s))

\* s.startswith(p)
StartsWith(s, p) == Len(s) >= Len(p) /\ SubSeq(s, 1, Len(p)) = p

\* s.find(sub, start): the lowest index >= start where sub occurs, else -1
Find(s, sub, start) ==
    LET hits == {i \in start..(Len(s) - Len(sub)) : SubSeq(s, i + 1, i + Len(sub)) = sub}
    IN IF hits = {} THEN -1 ELSE MinOf(hits)

\* s.split('\n')
RECURSIVE Split(_)
Split(s) ==
    LET i == Find(s, <<NL>>, 0)
    IN IF i = -1 THEN <<s>> ELSE <<Slice(s, 0, i)>> \o Split(SliceFrom(s, i + 1))

\* whitespace as str.strip() and the regex class \s see it (within the alphabet used)
IsSpace(c) == c \in {" ", NL}

\* s.strip()
RECURSIVE LStrip(_)
LStrip(s) == IF s # <<>> /\ IsSpace(s[1]) THEN LStrip(Tail(s)) ELSE s
RECURSIVE RStrip(_)
RStrip(s) == IF s # <<>> /\ IsSpace(s[Len(s)]) THEN RStrip(SubSeq(s, 1, Len(s) - 1)) ELSE s
Strip(s) == RStrip(LStrip(s))

\* n copies of '#'
Hashes(n) == [i \in 1..n |-> "#"]

-----------------------------------------------------------------------------
(* PreviewPanel._render_line: one iteration of the while loop.             *)
(* Each Try* is one `if` of the loop body: hit is TRUE when the branch     *)
(* inserts and continues; run is the insert; pos is the cursor after it.   *)

Run(tag, ln, a, b) == [tag |-> tag, text |-> Slice(ln, a, b), from |-> a, to |-> b]

NoHit == [hit |-> FALSE]

\* TryBold stepping over one '*' of the closing pair only
TryBold_ShortAdvance(ln, p) ==
    IF Slice(ln, p, p + 2) = <<STAR, STAR>>
    THEN LET end == Find(ln, <<STAR, STAR>>, p + 2)
         IN IF end # -1
            THEN [hit |-> TRUE, run |-> Run("bold", ln, p + 2, end), pos |-> end + 1]
            ELSE NoHit
    ELSE NoHit

TryBold(ln, p) ==
    IF Slice(ln, p, p + 2) = <<STAR, STAR>>
    THEN LET end == Find(ln, <<STAR, STAR>>, p + 2)
         IN IF end # -1
            THEN [hit |-> TRUE, run |-> Run("bold", ln, p + 2, end), pos |-> end + 2]
            ELSE NoHit
    ELSE NoHit

TryItalic(ln, p) ==
    IF At(ln, p) = STAR /\ (p = 0 \/ At(ln, p - 1) # STAR)
    THEN LET end == Find(ln, <<STAR>>, p + 1)
         IN IF end # -1 /\ (end = Len(ln) - 1 \/ At(ln, end + 1) # STAR)
            THEN [hit |-> TRUE, run |-> Run("italic", ln, p + 1, end), pos |-> end + 1]
            ELSE NoHit
    ELSE NoHit

\* TryCode leaving the cursor on the closing backtick
TryCode_StopAtClose(ln, p) ==
    IF At(ln, p) = TICK
    THEN LET end == Find(ln, <<TICK>>, p + 1)
         IN IF end # -1
            THEN [hit |-> TRUE, run |-> Run("code", ln, p + 1, end), pos |-> end]
            ELSE NoHit
    ELSE NoHit

TryCode(ln, p) ==
    IF At(ln, p) = TICK
    THEN LET end == Find(ln, <<TICK>>, p + 1)
         IN IF end # -1
            THEN [hit |-> TRUE, run |-> Run("code", ln, p + 1, end), pos |-> end + 1]
            ELSE NoHit
    ELSE NoHit

\* TryLink leaving the cursor on the '(' instead of past the ')'
TryLink_StopAtBracket(ln, p) ==
    IF At(ln, p) = "["
    THEN LET text_end == Find(ln, <<"]">>, p)
         IN IF text_end # -1 /\ text_end + 1 < Len(ln) /\ At(ln, text_end + 1) = "("
            THEN LET url_end == Find(ln, <<")">>, text_end + 2)
                 IN IF url_end # -1
                    THEN [hit |-> TRUE, run |-> Run("link", ln, p + 1, text_end),
                          pos |-> text_end + 1]
                    ELSE NoHit
            ELSE NoHit
    ELSE NoHit

\* TryLink inserting everything up to the ')' as the link text
TryLink_TextWithUrl(ln, p) ==
    IF At(ln, p) = "["
    THEN LET text_end == Find(ln, <<"]">>, p)
         IN IF text_end # -1 /\ text_end + 1 < Len(ln) /\ At(ln, text_end + 1) = "("
            THEN LET url_end == Find(ln, <<")">>, text_end + 2)
                 IN IF url_end # -1
                    THEN [hit |-> TRUE, run |-> Run("link", ln, p + 1, url_end),
                          pos |-> url_end + 1]
                    ELSE NoHit
            ELSE NoHit
    ELSE NoHit

TryLink(ln, p) ==
    IF At(ln, p) = "["
    THEN LET text_end == Find(ln, <<"]">>, p)
         IN IF text_end # -1 /\ text_end + 1 < Len(ln) /\ At(ln, text_end + 1) = "("
            THEN LET url_end == Find(ln, <<")">>, text_end + 2)
                 IN IF url_end # -1
                    THEN [hit |-> TRUE, run |-> Run("link", ln, p + 1, text_end),
                          pos |-> url_end + 1]
                    ELSE NoHit
            ELSE NoHit
    ELSE NoHit

\* PlainChar without  pos += 1
PlainChar_Stuck(ln, p) == [hit |-> TRUE, run |-> Run("plain", ln, p, p + 1), pos |-> p]

\* "Regular character": insert line[pos] untagged, pos += 1
PlainChar(ln, p) == [hit |-> TRUE, run |-> Run("plain", ln, p, p + 1), pos |-> p + 1]

\* Step trying the italic pair before the bold pair
Step_ItalicFirst(ln, p) ==
    IF TryItalic(ln, p).hit THEN TryItalic(ln, p)
    ELSE IF TryBold(ln, p).hit THEN TryBold(ln, p)
    ELSE IF TryCode(ln, p).hit THEN TryCode(ln, p)
    ELSE IF TryLink(ln, p).hit THEN TryLink(ln, p)
    ELSE PlainChar(ln, p)

\* the loop body, for pos < len(line)
Step(ln, p) ==
    IF TryBold(ln, p).hit THEN TryBold(ln, p)
    ELSE IF TryItalic(ln, p).hit THEN TryItalic(ln, p)
    ELSE IF TryCode(ln, p).hit THEN TryCode(ln, p)
    ELSE IF TryLink(ln, p).hit THEN TryLink(ln, p)
    ELSE PlainChar(ln, p)

\* the while loop from cursor p to its exit
RECURSIVE RenderFrom(_, _)
RenderFrom(ln, p) ==
    IF p < Len(ln)
    THEN LET s == Step(ln, p) IN <<s.run>> \o RenderFrom(ln, s.pos)
    ELSE <<>>

\* _render_line(line): the inserts it makes
RenderLine(ln) == IF ln = <<>> THEN <<>> ELSE RenderFrom(ln, 0)

-----------------------------------------------------------------------------
(* PreviewPanel.update_preview *)

\* one block per line: the insert(s) made for it; the trailing '\n' ends the block
Block(cat, rs) == [cat |-> cat, runs |-> rs]

HeaderBlock(cat, ln, n) == Block(cat, <<Run(cat, ln, n, Len(ln))>>)

RenderBlock(ln) ==
    IF StartsWith(ln, <<"#", " ">>) THEN HeaderBlock("h1", ln, 2)
    ELSE IF StartsWith(ln, <<"#", "#", " ">>) THEN HeaderBlock("h2", ln, 3)
    ELSE IF StartsWith(ln, <<"#", "#", "#", " ">>) THEN HeaderBlock("h3", ln, 4)
    ELSE IF StartsWith(ln, <<"#", "#", "#", "#", " ">>) THEN HeaderBlock("h4", ln, 5)
    ELSE IF StartsWith(ln, <<">", " ">>) THEN HeaderBlock("blockquote", ln, 2)
    ELSE Block("plain", RenderLine(ln))

\* RenderDoc without the  if not markdown_text: return
RenderDoc_NoEmptyCheck(markdown_text) ==
    LET lines == Split(markdown_text)
    IN [i \in 1..Len(lines) |-> RenderBlock(lines[i])]

\* the document update_preview(markdown_text) leaves in the preview widget
RenderDoc(markdown_text) ==
    IF markdown_text = <<>>
    THEN <<>>
    ELSE LET lines == Split(markdown_text)
         IN [i \in 1..Len(lines) |-> RenderBlock(lines[i])]

-----------------------------------------------------------------------------
(* MarkdownTab.highlight_syntax *)

Span(tag, a, b) == [tag |-> tag, start |-> a, end |-> b]

IsDigit(c) == c \in {"0", "1", "2", "3", "4", "5", "6", "7", "8", "9"}

\* re.match(r'^[\*\-]\s+', line)
IsBulletItem(ln) == Len(ln) >= 2 /\ ln[1] \in {STAR, "-"} /\ IsSpace(ln[2])

\* re.match(r'^\d+\.\s+', line)
IsNumberedItem(ln) ==
    \E n \in 1..Len(ln) :
        /\ \A i \in 1..n : IsDigit(ln[i])
        /\ Len(ln) >= n + 2
        /\ ln[n + 1] = "."
        /\ IsSpace(ln[n + 2])

\* the chain testing the '#' run alone, without the space after it
BlockTag_NoSpace(ln) ==
    IF StartsWith(ln, Hashes(1)) THEN "h1"
    ELSE IF StartsWith(ln, <<">", " ">>) THEN "blockquote"
    ELSE IF IsBulletItem(ln) \/ IsNumberedItem(ln) THEN "list"
    ELSE ""

\* the if/elif chain over one line: the tag it adds, "" when none
BlockTag(ln) ==
    IF StartsWith(ln, Hashes(1) \o <<" ">>) THEN "h1"
    ELSE IF StartsWith(ln, Hashes(2) \o <<" ">>) THEN "h2"
    ELSE IF StartsWith(ln, Hashes(3) \o <<" ">>) THEN "h3"
    ELSE IF StartsWith(ln, Hashes(4) \o <<" ">>) THEN "h4"
    ELSE IF StartsWith(ln, Hashes(5) \o <<" ">>) THEN "h5"
    ELSE IF StartsWith(ln, Hashes(6) \o <<" ">>) THEN "h6"
    ELSE IF StartsWith(ln, <<">", " ">>) THEN "blockquote"
    ELSE IF IsBulletItem(ln) \/ IsNumberedItem(ln) THEN "list"
    ELSE ""

\* offset in the buffer of index 'k.0', k = 1 for the first line
RECURSIVE LineStart(_, _)
LineStart(lines, k) == IF k = 1 THEN 0 ELSE LineStart(lines, k - 1) + Len(lines[k - 1]) + 1

\* LineEnd taking the newline of the line with it
LineEnd_WithNewline(lines, k) == LineStart(lines, k) + Len(lines[k]) + 1

\* offset of index 'k.end': the end of line k, before its newline
LineEnd(lines, k) == LineStart(lines, k) + Len(lines[k])

\* the for loop over content.split('\n'): tag_add(tag, 'k.0', 'k.end')
BlockSpans(content) ==
    LET lines == Split(content)
    IN {Span(BlockTag(lines[k]), LineStart(lines, k), LineEnd(lines, k)) :
            k \in {j \in 1..Len(lines) : BlockTag(lines[j]) # ""}}

\* '.' of the regexes: any character but a newline, over content[a:b]
NoNewline(c, a, b) == \A i \in a..(b - 1) : At(c, i) # NL

OccursAt(c, sub, i) == i + Len(sub) <= Len(c) /\ SubSeq(c, i + 1, i + Len(sub)) = sub

\* the match of  open(.+?)close  that starts at s: its end offset, -1 when none
PairEnd(c, open, close, s) ==
    IF OccursAt(c, open, s)
    THEN LET ends == {e \in (s + Len(open) + 1)..(Len(c) - Len(close)) :
                          OccursAt(c, close, e) /\ NoNewline(c, s + Len(open), e)}
         IN IF ends = {} THEN -1 ELSE MinOf(ends) + Len(close)
    ELSE -1

\* the match of  \[(.+?)\]\((.+?)\)  that starts at s: its end offset, -1 when none
LinkEnd(c, s) ==
    IF OccursAt(c, <<"[">>, s)
    THEN LET urlEnds(t) == {u \in (t + 3)..(Len(c) - 1) :
                                At(c, u) = ")" /\ NoNewline(c, t + 2, u)}
             textEnds == {t \in (s + 2)..(Len(c) - 2) :
                              /\ OccursAt(c, <<"]", "(">>, t)
                              /\ NoNewline(c, s + 1, t)
                              /\ urlEnds(t) # {}}
         IN IF textEnds = {} THEN -1 ELSE MinOf(urlEnds(MinOf(textEnds))) + 1
    ELSE -1

\* where the text group of the link match that starts at s ends: the offset of "]("
LinkMid(c, s) ==
    MinOf({t \in (s + 2)..(Len(c) - 2) :
               /\ OccursAt(c, <<"]", "(">>, t)
               /\ NoNewline(c, s + 1, t)
               /\ \E u \in (t + 3)..(Len(c) - 1) : At(c, u) = ")" /\ NoNewline(c, t + 2, u)})

\* the match of  ```(.+?)```  with DOTALL that starts at s: its end offset, -1 when none
FenceEnd(c, s) ==
    IF OccursAt(c, <<TICK, TICK, TICK>>, s)
    THEN LET ends == {e \in (s + 4)..(Len(c) - 3) : OccursAt(c, <<TICK, TICK, TICK>>, e)}
         IN IF ends = {} THEN -1 ELSE MinOf(ends) + 3
    ELSE -1

\* the match of  !\[(.+?)\]\((.+?)\)  that starts at s: its end offset, -1 when none
ImageEnd(c, s) == IF OccursAt(c, <<"!">>, s) THEN LinkEnd(c, s + 1) ELSE -1

MatchEnd(rule, c, s) ==
    CASE rule = "fence" -> FenceEnd(c, s)
      [] rule = "image" -> ImageEnd(c, s)
      [] rule = "bold*" -> PairEnd(c, <<STAR, STAR>>, <<STAR, STAR>>, s)
      [] rule = "bold_" -> PairEnd(c, <<"_", "_">>, <<"_", "_">>, s)
      [] rule = "italic*" -> PairEnd(c, <<STAR>>, <<STAR>>, s)
      [] rule = "italic_" -> PairEnd(c, <<"_">>, <<"_">>, s)
      [] rule = "code" -> PairEnd(c, <<TICK>>, <<TICK>>, s)
      [] rule = "link" -> LinkEnd(c, s)

\* re.finditer(rule, content) from offset p: the matches [start, end), leftmost
\* first, each search resuming where the previous match ended
RECURSIVE FindIter(_, _, _)
FindIter(rule, c, p) ==
    LET starts == {s \in p..(Len(c) - 1) : MatchEnd(rule, c, s) # -1}
    IN IF starts = {}
       THEN {}
       ELSE LET s == MinOf(starts)
            IN {[start |-> s, end |-> MatchEnd(rule, c, s)]}
                   \cup FindIter(rule, c, MatchEnd(rule, c, s))

\* tag_add over the inner group of every match: match.start(1), match.end(1)
MatchSpans_InnerGroup(tag, rule, c) ==
    LET n == IF rule \in {"bold*", "bold_"} THEN 2 ELSE 1
        last(m) == IF rule = "link"
                   THEN MinOf({t \in m.start..m.end : OccursAt(c, <<"]", "(">>, t)})
                   ELSE m.end - n
    IN {Span(tag, m.start + n, last(m)) : m \in FindIter(rule, c, 0)}

\* tag_add(tag, "1.0+{match.start()}c", "1.0+{match.end()}c") for every match
MatchSpans(tag, rule, c) == {Span(tag, m.start, m.end) : m \in FindIter(rule, c, 0)}

BoldSpans(c) == MatchSpans("bold", "bold*", c) \cup MatchSpans("bold", "bold_", c)

\* "Only if not part of **": content[max(0, start-1):start] != marker
NotAfter(c, m, marker) == m.start = 0 \/ At(c, m.start - 1) # marker

ItalicSpans(c) ==
    {Span("italic", m.start, m.end) :
        m \in {x \in FindIter("italic*", c, 0) : NotAfter(c, x, STAR)}}
    \cup
    {Span("italic", m.start, m.end) :
        m \in {x \in FindIter("italic_", c, 0) : NotAfter(c, x, "_")}}

CodeSpans(c) == MatchSpans("code", "code", c)

\* LinkSpans leaving out the links that lie in a range already tagged bold
LinkSpans_OutsideBold(c) ==
    {l \in MatchSpans("link", "link", c) :
        \A b \in BoldSpans(c) : ~(b.start < l.end /\ l.start < b.end)}

LinkSpans(c) == MatchSpans("link", "link", c)

\* self.text.get('1.0', tk.END): the buffer and the newline Tk ends it with
Content(buffer) == buffer \o <<NL>>

\* the tag ranges highlight_syntax leaves on the buffer
Annotate(content) ==
    BlockSpans(content) \cup BoldSpans(content) \cup ItalicSpans(content)
        \cup CodeSpans(content) \cup LinkSpans(content)

\* MarkdownTab.get_content
GetContent(buffer) == Strip(buffer)

\* the tags highlight_syntax removes before it adds ranges, 'italic' forgotten
ClearedTags_NoItalic ==
    {"h1", "h2", "h3", "h4", "h5", "h6", "bold", "code", "link", "list", "blockquote"}

\* the tags highlight_syntax removes from '1.0' to END before it adds ranges
ClearedTags ==
    {"h1", "h2", "h3", "h4", "h5", "h6", "bold", "italic", "code", "link", "list",
     "blockquote"}

\* the tag ranges on the buffer when highlight_syntax returns, old being the
\* ranges on it at the call
Retag(old, buffer) ==
    {sp \in old : sp.tag \notin ClearedTags} \cup Annotate(Content(buffer))

\* text.insert(index, chars) at offset at
Insert(buffer, at, chars) == Slice(buffer, 0, at) \o chars \o SliceFrom(buffer, at)

\* the tag ranges after text.insert of n characters at offset at: Tk gives the
\* new characters the tags present on both the character before and the one
\* after the insertion point, and moves what follows
TagsAfterInsert(old, at, n) ==
    LET inside(sp) ==
            \/ sp.start < at /\ at < sp.end
            \/ sp.end = at /\ \E o \in old : o.tag = sp.tag /\ o.start = at /\ o.end > at
    IN {IF sp.start >= at /\ sp.end > at
        THEN Span(sp.tag, sp.start + n, sp.end + n)
        ELSE IF inside(sp)
        THEN Span(sp.tag, sp.start, sp.end + n)
        ELSE sp : sp \in old}

-----------------------------------------------------------------------------
(* markdown_to_html.  The html is a sequence whose elements are the          *)
(* characters copied from the text and the pieces of markup the             *)
(* substitutions insert, one element per piece ("<strong>", "</a>", ...).    *)
(* No piece of markup holds a character the later patterns look for.        *)

\* re.sub over the matches ms (disjoint [start, end) records), from offset p
\* on: each match m gives way to repl[m], the rest is copied
RECURSIVE Substitute(_, _, _, _)
Substitute(c, ms, repl, p) ==
    LET later == {m \in ms : m.start >= p}
    IN IF later = {}
       THEN SliceFrom(c, p)
       ELSE LET m == CHOOSE x \in later : \A y \in later : x.start <= y.start
            IN Slice(c, p, m.start) \o repl[m] \o Substitute(c, ms, repl, m.end)

\* re.sub(open(.+?)close, <tag>\1</tag>, c), the delimiters n characters long
SubPair(c, rule, n, open, close) ==
    LET ms == FindIter(rule, c, 0)
    IN Substitute(c, ms,
                  [m \in ms |-> <<open>> \o Slice(c, m.start + n, m.end - n) \o <<close>>], 0)

\* re.sub(r'\[(.+?)\]\((.+?)\)', r'<a href="\2">\1</a>', c)
SubLinks(c) ==
    LET ms == FindIter("link", c, 0)
    IN Substitute(c, ms,
                  [m \in ms |->
                      LET mid == LinkMid(c, m.start)
                      IN <<"<a href=\"">> \o Slice(c, mid + 2, m.end - 1) \o <<"\">">>
                             \o Slice(c, m.start + 1, mid) \o <<"</a>">>], 0)

\* re.sub(r'!\[(.+?)\]\((.+?)\)', r'<img src="\2" alt="\1" style="max-width: 100%;">', c)
SubImages(c) ==
    LET ms == FindIter("image", c, 0)
    IN Substitute(c, ms,
                  [m \in ms |->
                      LET mid == LinkMid(c, m.start + 1)
                      IN <<"<img src=\"">> \o Slice(c, mid + 2, m.end - 1) \o <<"\" alt=\"">>
                             \o Slice(c, m.start + 2, mid)
                             \o <<"\" style=\"max-width: 100%;\">">>], 0)

\* '^' with MULTILINE
AtLineStart(c, s) == s = 0 \/ At(c, s - 1) = NL

\* '$' with MULTILINE, looked for from p on: the next newline, or the end
EndOfLine(c, p) ==
    LET nls == {i \in p..(Len(c) - 1) : At(c, i) = NL}
    IN IF nls = {} THEN Len(c) ELSE MinOf(nls)

\* the length of the run of digits at s
DigitRun(c, s) ==
    MinOf({n \in 0..(Len(c) - s) : s + n = Len(c) \/ ~IsDigit(At(c, s + n))})

\* where the literal head of a line pattern ends when it matches at s, else -1:
\* "h1".."h6" are #{n}, "star" \*, "dash" \-, "number" \d+\., "quote" >
HeadEnd(rule, c, s) ==
    LET lit(x) == IF OccursAt(c, x, s) THEN s + Len(x) ELSE -1
    IN CASE rule = "h1" -> lit(Hashes(1))
         [] rule = "h2" -> lit(Hashes(2))
         [] rule = "h3" -> lit(Hashes(3))
         [] rule = "h4" -> lit(Hashes(4))
         [] rule = "h5" -> lit(Hashes(5))
         [] rule = "h6" -> lit(Hashes(6))
         [] rule = "star" -> lit(<<STAR>>)
         [] rule = "dash" -> lit(<<"-">>)
         [] rule = "quote" -> lit(<<">">>)
         [] rule = "number" ->
                LET n == DigitRun(c, s)
                IN IF n > 0 /\ OccursAt(c, <<".">>, s + n) THEN s + n + 1 ELSE -1

\* \s+(.+)$ from offset a: where the group starts, -1 when there is no match.
\* \s+ takes the white space from a on, newlines too; when the text ends in
\* it, \s+ gives back down to the last blank that (.+) can take.
GroupStart(c, a) ==
    LET b == MinOf({i \in a..Len(c) : i = Len(c) \/ ~IsSpace(At(c, i))})
        blanks == {q \in (a + 1)..(b - 1) : At(c, q) # NL}
    IN IF a = -1 \/ b = a THEN -1
       ELSE IF b < Len(c) THEN b
       ELSE IF blanks = {} THEN -1
       ELSE CHOOSE q \in blanks : \A r \in blanks : r <= q

\* re.finditer(^head\s+(.+)$, c, MULTILINE) from offset p: [start, end, group]
RECURSIVE FindLines(_, _, _)
FindLines(rule, c, p) ==
    LET starts == {s \in p..(Len(c) - 1) :
                       AtLineStart(c, s) /\ GroupStart(c, HeadEnd(rule, c, s)) # -1}
    IN IF starts = {}
       THEN {}
       ELSE LET s == MinOf(starts)
                g == GroupStart(c, HeadEnd(rule, c, s))
            IN {[start |-> s, end |-> EndOfLine(c, g), group |-> g]}
                   \cup FindLines(rule, c, EndOfLine(c, g))

\* re.sub(^head\s+(.+)$, <tag>\1</tag>, c, flags=re.MULTILINE)
SubLines(c, rule, open, close) ==
    LET ms == FindLines(rule, c, 0)
    IN Substitute(c, ms, [m \in ms |-> <<open>> \o Slice(c, m.group, m.end) \o <<close>>], 0)

\* the offset just after the first "</li>" at or after p, -1 when none
AfterItem(c, p) ==
    LET closes == {i \in p..(Len(c) - 1) : At(c, i) = "</li>"}
    IN IF closes = {} THEN -1 ELSE MinOf(closes) + 1

\* (\n<li>.*?</li>)* from offset e: where it stops
RECURSIVE MoreItems(_, _)
MoreItems(c, e) ==
    IF OccursAt(c, <<NL, "<li>">>, e) /\ AfterItem(c, e + 2) # -1
    THEN MoreItems(c, AfterItem(c, e + 2))
    ELSE e

\* the match of (<li>.*?</li>(\n<li>.*?</li>)*) with DOTALL that starts at s
ItemsEnd(c, s) ==
    IF OccursAt(c, <<"<li>">>, s) /\ AfterItem(c, s + 1) # -1
    THEN MoreItems(c, AfterItem(c, s + 1))
    ELSE -1

RECURSIVE FindItems(_, _)
FindItems(c, p) ==
    LET starts == {s \in p..(Len(c) - 1) : ItemsEnd(c, s) # -1}
    IN IF starts = {}
       THEN {}
       ELSE LET s == MinOf(starts)
            IN {[start |-> s, end |-> ItemsEnd(c, s)]} \cup FindItems(c, ItemsEnd(c, s))

\* "Wrap consecutive <li> tags in <ul>"
WrapItems(c) ==
    LET ms == FindItems(c, 0)
    IN Substitute(c, ms, [m \in ms |-> <<"<ul>">> \o Slice(c, m.start, m.end) \o <<"</ul>">>], 0)

\* html.replace('\n\n', '<br><br>')
RECURSIVE LineBreaks(_)
LineBreaks(c) ==
    IF c = <<>> THEN <<>>
    ELSE IF OccursAt(c, <<NL, NL>>, 0) THEN <<"<br><br>">> \o LineBreaks(SliceFrom(c, 2))
    ELSE <<Head(c)>> \o LineBreaks(Tail(c))

\* the f-string: the page head with its style sheet, the html, the page foot
Page(c) == <<"<html><head><style>...</style></head><body>">> \o c \o <<"</body></html>">>

\* the substitutions of markdown_to_html, in the order it applies them
HtmlSteps ==
    <<"h6", "h5", "h4", "h3", "h2", "h1", "bold*", "bold_", "italic*", "italic_", "code",
      "fence", "link", "image", "star", "dash", "number", "items", "quote", "breaks", "page">>

\* one statement  html = re.sub(...)  of markdown_to_html
ApplyStep(step, c) ==
    CASE step = "h6" -> SubLines(c, "h6", "<h6>", "</h6>")
      [] step = "h5" -> SubLines(c, "h5", "<h5>", "</h5>")
      [] step = "h4" -> SubLines(c, "h4", "<h4>", "</h4>")
      [] step = "h3" -> SubLines(c, "h3", "<h3>", "</h3>")
      [] step = "h2" -> SubLines(c, "h2", "<h2>", "</h2>")
      [] step = "h1" -> SubLines(c, "h1", "<h1>", "</h1>")
      [] step = "bold*" -> SubPair(c, "bold*", 2, "<strong>", "</strong>")
      [] step = "bold_" -> SubPair(c, "bold_", 2, "<strong>", "</strong>")
      [] step = "italic*" -> SubPair(c, "italic*", 1, "<em>", "</em>")
      [] step = "italic_" -> SubPair(c, "italic_", 1, "<em>", "</em>")
      [] step = "code" -> SubPair(c, "code", 1, "<code>", "</code>")
      [] step = "fence" -> SubPair(c, "fence", 3, "<pre><code>", "</code></pre>")
      [] step = "link" -> SubLinks(c)
      [] step = "image" -> SubImages(c)
      [] step = "star" -> SubLines(c, "star", "<li>", "</li>")
      [] step = "dash" -> SubLines(c, "dash", "<li>", "</li>")
      [] step = "number" -> SubLines(c, "number", "<li>", "</li>")
      [] step = "items" -> WrapItems(c)
      [] step = "quote" -> SubLines(c, "quote", "<blockquote>", "</blockquote>")
      [] step = "breaks" -> LineBreaks(c)
      [] step = "page" -> Page(c)

\* the statements from the k-th on, applied to html
RECURSIVE ApplySteps(_, _)
ApplySteps(k, html0) ==
    IF k > Len(HtmlSteps)
    THEN html0
    ELSE CHOOSE r \in {ApplySteps(k + 1, ApplyStep(HtmlSteps[k], c)) : c \in {html0}} : TRUE

\* markdown_to_html(markdown_text)
markdown_to_html(markdown_text) == ApplySteps(1, markdown_text)

-----------------------------------------------------------------------------
(* load_settings / save_settings *)

\* numbers are written as strings: the values are only copied and compared
DEFAULT_SETTINGS ==
    [last_folder |-> "~", editor_bg |-> "#1e1e1e", editor_fg |-> "#d4d4d4",
     editor_font_size |-> "13", editor_font_family |-> "Menlo",
     preview_bg |-> "#1e1e1e", preview_fg |-> "#d4d4d4",
     preview_font_size |-> "12", preview_font_family |-> "Arial",
     md_h1_color |-> "#89b4fa", md_h2_color |-> "#89b4fa", md_h3_color |-> "#89b4fa",
     md_h4_color |-> "#89b4fa", md_bold_color |-> "#fab387",
     md_italic_color |-> "#94e2d5", md_code_color |-> "#f38ba8",
     md_code_bg |-> "#2b2b2b", md_link_color |-> "#89b4fa",
     md_list_color |-> "#f9e2af", md_blockquote_color |-> "#a6adc8",
     toolbar_bg |-> "#3c3c3c", button_bg |-> "#404040"]

NoMap == [k \in {} |-> ""]

\* what SETTINGS_FILE can hold: nothing (no file), text json.load rejects, or a
\* JSON document: an object, an array, or a number / string / null
Absent == [kind |-> "absent", map |-> NoMap, items |-> <<>>]
Garbage == [kind |-> "garbage", map |-> NoMap, items |-> <<>>]
JsonScalar == [kind |-> "scalar", map |-> NoMap, items |-> <<>>]
JsonObject(m) == [kind |-> "object", map |-> m, items |-> <<>>]
JsonArray(xs) == [kind |-> "array", map |-> NoMap, items |-> xs]

\* dict.update(m) for a mapping m
Update(d, m) ==
    [k \in DOMAIN d \cup DOMAIN m |-> IF k \in DOMAIN m THEN m[k] ELSE d[k]]

\* an element of a JSON array that dict.update takes as a key/value pair
IsPair(x) == DOMAIN x = {1, 2}

\* dict.update(xs) for a list xs: the pairs are stored one by one, and the
\* first element that is no pair raises, with the earlier pairs already stored
RECURSIVE UpdateFromList(_, _)
UpdateFromList(d, xs) ==
    IF xs = <<>> \/ ~IsPair(Head(xs))
    THEN d
    ELSE UpdateFromList(Update(d, [k \in {Head(xs)[1]} |-> Head(xs)[2]]), Tail(xs))

\* load_settings() without DEFAULT_SETTINGS.copy(): the saved mapping alone
LoadSettings_SavedOnly(file) ==
    IF file.kind = "object" THEN file.map ELSE DEFAULT_SETTINGS

\* load_settings(): the mapping it returns
LoadSettings(file) ==
    LET defaults == DEFAULT_SETTINGS
    IN CASE file.kind = "absent" -> defaults
         [] file.kind = "garbage" -> defaults
         [] file.kind = "object" -> Update(defaults, file.map)
         [] file.kind = "array" -> UpdateFromList(defaults, file.items)
         [] file.kind = "scalar" -> defaults

\* save_settings(settings): what SETTINGS_FILE can hold afterwards: the dump,
\* the old content when open() fails, nothing readable when the write fails
SaveSettings(file, s) == {JsonObject(s), file, Garbage}

-----------------------------------------------------------------------------
(* Input texts *)

\* bound: an input is at most MaxTok tokens long
MaxTok == 3

\* bound: header lines are tried with 1..MaxHashes leading '#'
MaxHashes == 7

\* bound: the lines given to the small-step _render_line have at most MaxLineTok tokens
MaxLineTok == 3

Alphabet == {"a", " ", STAR, TICK, "[", "]", "(", ")", "#", ">", NL, "_", "-", "1", "."}

BoldToken == <<STAR, STAR, "b", STAR, STAR>>
ItalicToken == <<STAR, "i", STAR>>
CodeToken == <<TICK, "c", TICK>>
LinkToken == <<"[", "t", "]", "(", "u", ")">>

\* a token is one character or one well-formed inline construct
Tokens == {<<c>> : c \in Alphabet} \cup {BoldToken, ItalicToken, CodeToken, LinkToken}

RECURSIVE TokTexts(_, _)
TokTexts(toks, n) ==
    IF n = 0
    THEN {<<>>}
    ELSE LET shorter == TokTexts(toks, n - 1)
         IN shorter \cup {p \o t : p \in shorter, t \in toks}

HeaderTexts ==
    {Hashes(n) \o <<" ">> \o rest :
        n \in 1..MaxHashes, rest \in {<<>>, <<"a">>, ItalicToken, <<"a", NL, "a">>}}

\* "# Hello"
ScenarioA ==
    <<"#", " ", "H", "e", "l", "l", "o">>

\* "This is **bold** and *italic*."
ScenarioB ==
    <<"T", "h", "i", "s", " ", "i", "s", " ", STAR, STAR, "b", "o", "l",
    "d", STAR, STAR, " ", "a", "n", "d", " ", STAR, "i", "t", "a", "l",
    "i", "c", STAR, ".">>

\* "> quoted"
ScenarioC ==
    <<">", " ", "q", "u", "o", "t", "e", "d">>

\* "[site](http://x.com)"
ScenarioD ==
    <<"[", "s", "i", "t", "e", "]", "(", "h", "t", "t", "p", ":", "/",
    "/", "x", ".", "c", "o", "m", ")">>

\* "*oops"
ScenarioE ==
    <<STAR, "o", "o", "p", "s">>

\* "**[text](url)**"
ScenarioOverlap ==
    <<STAR, STAR, "[", "t", "e", "x", "t", "]", "(", "u", "r", "l", ")",
    STAR, STAR>>

Scenarios == {ScenarioA, ScenarioB, ScenarioC, ScenarioD, ScenarioE, ScenarioOverlap}

\* one line for each block rule of highlight_syntax, and near misses
BlockLines ==
    {<<"#", " ", "a">>, <<"#", "#", " ", "a">>, <<"#", "#", "#", "#", "#", "#", " ", "a">>,
     <<">", " ", "a">>, <<"-", " ", "a">>, <<STAR, " ", "a">>, <<"1", ".", " ", "a">>,
     <<"a">>, <<"#", "a">>, <<"1", " ", "a">>}

TwoLineTexts == {l1 \o <<NL>> \o l2 : l1 \in BlockLines, l2 \in BlockLines}

Inputs == TokTexts(Tokens, MaxTok) \cup HeaderTexts \cup Scenarios \cup TwoLineTexts

\* lines for the small-step loop: the characters _render_line tests, and the constructs
LineTokens ==
    {<<c>> : c \in {"a", " ", STAR, TICK, "[", "]", "(", ")"}}
        \cup {BoldToken, ItalicToken, CodeToken, LinkToken}

Lines == TokTexts(LineTokens, MaxLineTok) \cup {ScenarioB, ScenarioD, ScenarioE}

-----------------------------------------------------------------------------
(* Spec: the two pipelines applied to an input text *)

Init ==
    /\ text \in Inputs
    /\ tags = {}
    /\ hl = FALSE
    /\ preview = <<>>
    /\ rendered = <<>>
    /\ pv = FALSE
    /\ line = <<>>
    /\ pos = 0
    /\ runs = <<>>
    /\ pc = "off"
    /\ cursor = 0
    /\ pending = {}
    /\ html = <<>>
    /\ settings_file = Absent
    /\ settings = DEFAULT_SETTINGS
    /\ loaded = TRUE
    /\ AppIdle

\* PreviewPanel.update_preview(markdown_text)
PreviewUpdate(markdown_text) ==
    /\ preview' = RenderDoc(markdown_text)
    /\ rendered' = markdown_text
    /\ pv' = TRUE

\* MarkdownTab.highlight_syntax: retag the buffer, then on_content_changed ->
\* on_tab_modified -> update_preview -> preview_panel.update_preview(tab.get_content())
HighlightSyntax ==
    /\ tags' = Retag(tags, text)
    /\ hl' = TRUE
    /\ PreviewUpdate(GetContent(text))
    /\ UNCHANGED <<text, renderVars, editVars, html, settingsVars, appVars>>

\* PreviewPanel.update_preview called with the text itself
UpdatePreview ==
    /\ PreviewUpdate(text)
    /\ UNCHANGED <<text, tags, hl, renderVars, editVars, html, settingsVars, appVars>>

Next == HighlightSyntax \/ UpdatePreview

Spec == Init /\ [][Next]_vars

-----------------------------------------------------------------------------
(* LoopSpec: _render_line(line), one loop iteration per step *)

LoopInit ==
    /\ line \in Lines
    /\ pos = 0
    /\ runs = <<>>
    /\ pc = "call"
    /\ text = <<>>
    /\ tags = {}
    /\ hl = FALSE
    /\ preview = <<>>
    /\ rendered = <<>>
    /\ pv = FALSE
    /\ cursor = 0
    /\ pending = {}
    /\ html = <<>>
    /\ settings_file = Absent
    /\ settings = DEFAULT_SETTINGS
    /\ loaded = TRUE
    /\ AppIdle

\* if not line: return;  pos = 0
RenderLineEnter ==
    /\ pc = "call"
    /\ pc' = IF line = <<>> THEN "done" ELSE "loop"
    /\ pos' = 0
    /\ UNCHANGED <<text, tags, hl, preview, rendered, pv, line, runs, editVars, html, settingsVars, appVars>>

\* one iteration of  while pos < len(line)
RenderLineIterate ==
    /\ pc = "loop"
    /\ pos < Len(line)
    /\ runs' = Append(runs, Step(line, pos).run)
    /\ pos' = Step(line, pos).pos
    /\ UNCHANGED <<text, tags, hl, preview, rendered, pv, line, pc, editVars, html, settingsVars, appVars>>

\* the loop condition fails: return
RenderLineExit ==
    /\ pc = "loop"
    /\ ~(pos < Len(line))
    /\ pc' = "done"
    /\ UNCHANGED <<text, tags, hl, preview, rendered, pv, line, pos, runs, editVars, html,
                   settingsVars, appVars>>

LoopNext == RenderLineEnter \/ RenderLineIterate \/ RenderLineExit

LoopSpec == LoopInit /\ [][LoopNext]_vars

\* the call runs on one thread with no suspension point: a step that can be taken is taken
FairLoopSpec == LoopSpec /\ WF_vars(LoopNext)

-----------------------------------------------------------------------------
(* SettingsSpec: load_settings() at start-up, save_settings() from open_file *)

MaxItems == 2

FileKeys == {"editor_bg", "editor_font_size", "window_width"}
FileValues == {"#ffffff", "16"}
Folders == {"/docs"}

FileMaps == UNION {[D -> FileValues] : D \in SUBSET FileKeys}

\* elements of a JSON array: two-element arrays and a number
FileItems == {<<"editor_bg", "#ffffff">>, <<"window_width", "16">>, <<"7">>}

FileLists == UNION {[1..n -> FileItems] : n \in 0..MaxItems}

SettingsFiles ==
    {Absent, Garbage, JsonScalar}
        \cup {JsonObject(m) : m \in FileMaps}
        \cup {JsonArray(xs) : xs \in FileLists}

SettingsInit ==
    /\ settings_file \in SettingsFiles
    /\ settings = DEFAULT_SETTINGS
    /\ loaded = FALSE
    /\ AppIdle
    /\ text = <<>>
    /\ tags = {}
    /\ hl = FALSE
    /\ preview = <<>>
    /\ rendered = <<>>
    /\ pv = FALSE
    /\ line = <<>>
    /\ pos = 0
    /\ runs = <<>>
    /\ pc = "off"
    /\ cursor = 0
    /\ pending = {}
    /\ html = <<>>

\* MarkdownEditorPro.__init__: self.settings = load_settings().  The bare
\* except leaves no way out of load_settings but its return.
LoadSettingsCall ==
    /\ settings' = LoadSettings(settings_file)
    /\ loaded' = TRUE
    /\ UNCHANGED <<settings_file, text, tags, hl, preview, rendered, pv, renderVars,
                   editVars, html, appVars>>

\* open_file: self.settings['last_folder'] = dirname; save_settings(self.settings)
RememberFolder ==
    /\ loaded
    /\ \E d \in Folders :
           LET s == [settings EXCEPT !["last_folder"] = d]
           IN /\ settings' = s
              /\ settings_file' \in SaveSettings(settings_file, s)
    /\ loaded' = FALSE
    /\ UNCHANGED <<text, tags, hl, preview, rendered, pv, renderVars, editVars, html, appVars>>

SettingsNext ==
    \/ LoadSettingsCall
    \/ RememberFolder

SettingsSpec == SettingsInit /\ [][SettingsNext]_vars

-----------------------------------------------------------------------------
(* EditSpec: one tab with the preview shown.  The user types, moves the     *)
(* insert mark, clicks the toolbar buttons and opens files; Tk delivers     *)
(* <<Modified>> and <KeyRelease> to the handlers bound on the edit buffer.   *)
(* There is no selection: the insert_* methods take their except branch.    *)

\* bound: keys are typed while the buffer is shorter than MaxTypeLen
MaxTypeLen == 4

\* bound: toolbar buttons are clicked while the buffer is at most MaxToolLen long
MaxToolLen == 1

EditKeys == {"#", " ", STAR, "a", NL}

\* the contents of the files opened
FileTexts ==
    {<<>>, <<"#", " ", "a">>, <<" ", "#", " ", "a">>, <<NL, "#", " ", "a">>, BoldToken,
     <<"a", NL, ">", " ", "a">>}

EditInit ==
    /\ text = <<>>
    /\ tags = {}
    /\ hl = FALSE
    /\ preview = <<>>
    /\ rendered = <<>>
    /\ pv = FALSE
    /\ cursor = 0
    /\ pending = {}
    /\ line = <<>>
    /\ pos = 0
    /\ runs = <<>>
    /\ pc = "off"
    /\ html = <<>>
    /\ settings_file = Absent
    /\ settings = DEFAULT_SETTINGS
    /\ loaded = TRUE
    /\ AppIdle

\* the user's events reach the handlers after the <<Modified>> queued before them
Idle == "Modified" \notin pending

\* text.insert(tk.INSERT, chars) and the move of the insert mark back by `back`;
\* the change of the buffer queues <<Modified>>
InsertAtCursor(chars, back) ==
    /\ text' = Insert(text, cursor, chars)
    /\ tags' = TagsAfterInsert(tags, cursor, Len(chars))
    /\ cursor' = cursor + Len(chars) - back
    /\ hl' = FALSE

\* a key pressed in the edit buffer: the Text class binding inserts the character
TypeKey ==
    /\ Idle
    /\ Len(text) < MaxTypeLen
    /\ \E c \in EditKeys : InsertAtCursor(<<c>>, 0)
    /\ pending' = pending \cup {"Modified", "KeyRelease"}
    /\ UNCHANGED <<preview, rendered, pv, renderVars, html, settingsVars, appVars>>

\* Left or Right pressed: the insert mark moves, the buffer does not change
PressArrow ==
    /\ Idle
    /\ \E c \in {cursor - 1, cursor + 1} : c \in 0..Len(text) /\ cursor' = c
    /\ pending' = pending \cup {"KeyRelease"}
    /\ UNCHANGED <<text, tags, hl, preview, rendered, pv, renderVars, html, settingsVars, appVars>>

\* <<Modified>> -> on_text_modified -> on_content_changed -> on_tab_modified ->
\* update_preview -> preview_panel.update_preview(tab.get_content())
OnTextModified ==
    /\ "Modified" \in pending
    /\ PreviewUpdate(GetContent(text))
    /\ pending' = pending \ {"Modified"}
    /\ UNCHANGED <<text, tags, hl, cursor, renderVars, html, settingsVars, appVars>>

\* <KeyRelease> -> highlight_syntax, which ends in on_content_changed
OnKeyRelease ==
    /\ pending = {"KeyRelease"}
    /\ tags' = Retag(tags, text)
    /\ hl' = TRUE
    /\ PreviewUpdate(GetContent(text))
    /\ pending' = {}
    /\ UNCHANGED <<text, cursor, renderVars, html, settingsVars, appVars>>

\* toolbar BOLD: insert_bold
InsertBold ==
    /\ Idle
    /\ Len(text) <= MaxToolLen
    /\ InsertAtCursor(<<STAR, STAR, STAR, STAR>>, 2)
    /\ pending' = pending \cup {"Modified"}
    /\ UNCHANGED <<preview, rendered, pv, renderVars, html, settingsVars, appVars>>

\* toolbar ITALIC: insert_italic
InsertItalic ==
    /\ Idle
    /\ Len(text) <= MaxToolLen
    /\ InsertAtCursor(<<STAR, STAR>>, 1)
    /\ pending' = pending \cup {"Modified"}
    /\ UNCHANGED <<preview, rendered, pv, renderVars, html, settingsVars, appVars>>

\* toolbar CODE: insert_code
InsertCode ==
    /\ Idle
    /\ Len(text) <= MaxToolLen
    /\ InsertAtCursor(<<TICK, TICK>>, 1)
    /\ pending' = pending \cup {"Modified"}
    /\ UNCHANGED <<preview, rendered, pv, renderVars, html, settingsVars, appVars>>

\* toolbar LINK: insert_link
InsertLink ==
    /\ Idle
    /\ Len(text) <= MaxToolLen
    /\ InsertAtCursor(<<"[", "t", "e", "x", "t", "]", "(", "u", "r", "l", ")">>, 0)
    /\ pending' = pending \cup {"Modified"}
    /\ UNCHANGED <<preview, rendered, pv, renderVars, html, settingsVars, appVars>>

\* open_file -> tab.set_content(content): delete all (the tag ranges go with
\* the characters), insert, highlight_syntax; then update_preview
OpenFile ==
    /\ Idle
    /\ \E content \in FileTexts :
           /\ text' = content
           /\ tags' = Retag({}, content)
           /\ cursor' = Len(content)
           /\ PreviewUpdate(GetContent(content))
    /\ hl' = TRUE
    /\ pending' = pending \cup {"Modified"}
    /\ UNCHANGED <<renderVars, html, settingsVars, appVars>>

EditNext ==
    \/ TypeKey
    \/ PressArrow
    \/ OnTextModified
    \/ OnKeyRelease
    \/ InsertBold
    \/ InsertItalic
    \/ InsertCode
    \/ InsertLink
    \/ OpenFile

EditSpec == EditInit /\ [][EditNext]_vars

-----------------------------------------------------------------------------
(* HtmlSpec: the two renderers, markdown_to_html and                        *)
(* PreviewPanel.update_preview, applied to an input text                    *)

\* bound: an input is at most MaxHtmlTok tokens long
MaxHtmlTok == 2

\* "![a](u)"
ImageToken == <<"!", "[", "a", "]", "(", "u", ")">>

\* "```c```"
FenceToken == <<TICK, TICK, TICK, "c", TICK, TICK, TICK>>

\* "```", "c", "```" on three lines
FenceLines == <<TICK, TICK, TICK, NL, "c", NL, TICK, TICK, TICK>>

HtmlTokens ==
    {<<c>> : c \in Alphabet \cup {"!"}}
        \cup {BoldToken, ItalicToken, CodeToken, LinkToken, ImageToken, FenceToken, FenceLines}

HtmlInputs == TokTexts(HtmlTokens, MaxHtmlTok)

HtmlInit ==
    /\ text \in HtmlInputs
    /\ html = <<>>
    /\ preview = <<>>
    /\ rendered = <<>>
    /\ pv = FALSE
    /\ tags = {}
    /\ hl = FALSE
    /\ line = <<>>
    /\ pos = 0
    /\ runs = <<>>
    /\ pc = "off"
    /\ cursor = 0
    /\ pending = {}
    /\ settings_file = Absent
    /\ settings = DEFAULT_SETTINGS
    /\ loaded = TRUE
    /\ AppIdle

\* html = markdown_to_html(text)
MarkdownToHtml ==
    /\ html' = markdown_to_html(text)
    /\ UNCHANGED <<text, tags, hl, preview, rendered, pv, renderVars, editVars, settingsVars, appVars>>

HtmlNext == MarkdownToHtml \/ UpdatePreview

HtmlSpec == HtmlInit /\ [][HtmlNext]_vars

-----------------------------------------------------------------------------
(* The editor window: MarkdownEditorPro with its notebook of tabs *)

\* bound: create_new_tab is tried while tab_counter < MaxTabCounter
MaxTabCounter == 3

\* a tab is added next to one tab at most: the runs keep to two tabs side by side
RoomForTab(tbs) == \A i, j \in DOMAIN tbs : i = j

AppKeys == {"a", " "}

\* the buffers the keys typed are to give
TypedTexts == {<<"a">>, <<" ">>, <<"#", " ", "a", "a">>}

Path(base) == [dir |-> "/docs", base |-> base]

\* MarkdownTab.file_path = None
NoPath == [dir |-> "", base |-> <<>>]

FilePaths == {Path(<<"a", ".", "m", "d">>)}

StoredTexts == {<<>>, <<"#", " ", "a">>}

\* os.path.dirname, os.path.basename
Dirname(path) == path.dir
Basename(path) == path.base

DigitChar(d) == <<"0", "1", "2", "3", "4", "5", "6", "7", "8", "9">>[d + 1]

\* str(n) in an f-string, n >= 0
RECURSIVE Decimal(_)
Decimal(n) == IF n < 10 THEN <<DigitChar(n)>> ELSE Decimal(n \div 10) \o <<DigitChar(n % 10)>>

\* f"Untitled {tab_id}"
Untitled(tab_id) == <<"U", "n", "t", "i", "t", "l", "e", "d", " ">> \o Decimal(tab_id)

\* MarkdownTab.__init__ and the entry of self.tabs made for it; title is the
\* text of the tab in the notebook
NewTab(tab_id) ==
    [text |-> <<>>, tags |-> {}, modified |-> FALSE, file_path |-> NoPath,
     name |-> Untitled(tab_id), title |-> Untitled(tab_id)]

\* get_current_tab: the tab notebook.select() names, 0 for None
GetCurrentTab(tbs, sel) == IF sel \in DOMAIN tbs THEN sel ELSE 0

\* MarkdownEditorPro.update_preview with self.preview_visible = visible
EditorUpdatePreview_FirstTab(visible, tbs, sel) ==
    IF visible /\ DOMAIN tbs # {}
    THEN PreviewUpdate(GetContent(tbs[MinOf(DOMAIN tbs)].text))
    ELSE UNCHANGED <<preview, rendered, pv>>

EditorUpdatePreview(visible, tbs, sel) ==
    IF visible /\ GetCurrentTab(tbs, sel) # 0
    THEN PreviewUpdate(GetContent(tbs[GetCurrentTab(tbs, sel)].text))
    ELSE UNCHANGED <<preview, rendered, pv>>

\* on_tab_modified: the notebook title of the tab afterwards
TitleAfterModified_Always(t) ==
    IF ~StartsWith(t.name, <<STAR>>) THEN <<STAR>> \o t.name ELSE t.title

TitleAfterModified(t) ==
    IF t.modified /\ ~StartsWith(t.name, <<STAR>>) THEN <<STAR>> \o t.name ELSE t.title

\* on_tab_modified(tab_id) on the tabs tbs, before its update_preview
OnTabModified(tbs, tab_id) ==
    IF tab_id \in DOMAIN tbs
    THEN [tbs EXCEPT ![tab_id].title = TitleAfterModified(tbs[tab_id])]
    ELSE tbs

\* on_tab_right_click: the menu has "Close"
CloseOffered_Always(tbs) == TRUE

CloseOffered(tbs) == Cardinality(DOMAIN tbs) > 1

\* the tab ttk selects when the selected tab tab_id is forgotten: the next
\* one, the one before when there is no next one, 0 when it was the only tab
NearestTab(open, tab_id) ==
    IF \E i \in open : i > tab_id THEN MinOf({i \in open : i > tab_id})
    ELSE IF \E i \in open : i < tab_id
         THEN CHOOSE i \in open : i < tab_id /\ \A j \in open : j < tab_id => j <= i
         ELSE 0

TabChanged == <<"NotebookTabChanged", 0>>

\* the user acts on the window once the events queued before are handled
Quiet ==
    /\ window = "open"
    /\ dialog = <<>>
    /\ events = {}

\* the [tab_id -> tab] mapping with the tab of tab_id added or replaced
WithTab(tbs, tab_id, t) ==
    [i \in DOMAIN tbs \cup {tab_id} |-> IF i = tab_id THEN t ELSE tbs[i]]

\* the files with content written to path
WriteFile(files, path, content) ==
    [f \in DOMAIN files \cup {path} |-> IF f = path THEN content ELSE files[f]]

\* self.settings['last_folder'] = folder; save_settings(self.settings), whose
\* write goes through here (RememberFolder has the writes that fail)
SaveLastFolder(folder) ==
    LET s == [settings EXCEPT !["last_folder"] = folder]
    IN /\ settings' = s
       /\ settings_file' = JsonObject(s)
       /\ loaded' = (LoadSettings(JsonObject(s)) = s)

\* the settings file an earlier session left after a file of /docs was opened
SettingsLeft == JsonObject([DEFAULT_SETTINGS EXCEPT !["last_folder"] = "/docs"])

\* MarkdownEditorPro.__init__: create_widgets ends in create_new_tab, whose
\* notebook.select queues <<NotebookTabChanged>>
AppInit ==
    /\ text = <<>>
    /\ tags = {}
    /\ hl = FALSE
    /\ preview = <<>>
    /\ rendered = <<>>
    /\ pv = FALSE
    /\ line = <<>>
    /\ pos = 0
    /\ runs = <<>>
    /\ pc = "off"
    /\ cursor = 0
    /\ pending = {}
    /\ html = <<>>
    /\ settings_file = SettingsLeft
    /\ settings = LoadSettings(SettingsLeft)
    /\ loaded = TRUE
    /\ tabs = WithTab(<<>>, 1, NewTab(1))
    /\ tab_counter = 1
    /\ selected = 1
    /\ preview_visible = TRUE
    /\ window = "open"
    /\ dialog = <<>>
    /\ response = NoResponse
    /\ disk \in [{Path(<<"a", ".", "m", "d">>)} -> StoredTexts]
    /\ events = {TabChanged}

appRest == <<text, tags, hl, renderVars, editVars, html>>

\* a key pressed in the selected tab's buffer (the insert mark is at its end):
\* the Text class binding inserts the character
TypeInTab ==
    /\ Quiet
    /\ \E c \in AppKeys :
           LET t == tabs[selected]
           IN /\ Insert(t.text, Len(t.text), <<c>>) \in TypedTexts
              /\ tabs' = [tabs EXCEPT ![selected].text = Insert(t.text, Len(t.text), <<c>>),
                                      ![selected].tags = TagsAfterInsert(t.tags, Len(t.text), 1)]
    /\ events' = events \cup {<<"Modified", selected>>, <<"KeyRelease", selected>>}
    /\ response' = NoResponse
    /\ UNCHANGED <<tab_counter, selected, preview_visible, window, dialog, disk,
                   preview, rendered, pv, settingsVars, appRest>>

\* a key that inserts nothing (an arrow) pressed in the selected tab's buffer
PressArrowInTab ==
    /\ Quiet
    /\ events' = events \cup {<<"KeyRelease", selected>>}
    /\ response' = NoResponse
    /\ UNCHANGED <<tabs, tab_counter, selected, preview_visible, window, dialog, disk,
                   preview, rendered, pv, settingsVars, appRest>>

\* <<Modified>> of a tab -> on_text_modified: modified = True,
\* on_content_changed(tab_id) = on_tab_modified(tab_id), which ends in update_preview
OnTabTextModified ==
    /\ window = "open"
    /\ \E e \in events :
           /\ e[1] = "Modified"
           /\ LET marked == IF e[2] \in DOMAIN tabs
                            THEN [tabs EXCEPT ![e[2]].modified = TRUE]
                            ELSE tabs
                  tbs == OnTabModified(marked, e[2])
              IN /\ tabs' = tbs
                 /\ EditorUpdatePreview(preview_visible, tbs, selected)
           /\ events' = events \ {e}
    /\ response' = NoResponse
    /\ UNCHANGED <<tab_counter, selected, preview_visible, window, dialog, disk,
                   settingsVars, appRest>>

\* <KeyRelease> of a tab -> highlight_syntax, which ends in on_content_changed(tab_id)
ReleaseKeyInTab ==
    /\ window = "open"
    /\ \E e \in events :
           /\ e[1] = "KeyRelease"
           /\ <<"Modified", e[2]>> \notin events
           /\ LET t == tabs[e[2]]
                  tbs == OnTabModified([tabs EXCEPT ![e[2]].tags = Retag(t.tags, t.text)], e[2])
              IN /\ tabs' = tbs
                 /\ EditorUpdatePreview(preview_visible, tbs, selected)
           /\ events' = events \ {e}
    /\ response' = NoResponse
    /\ UNCHANGED <<tab_counter, selected, preview_visible, window, dialog, disk,
                   settingsVars, appRest>>

\* <<NotebookTabChanged>> -> on_tab_changed -> update_preview
OnTabChanged ==
    /\ window = "open"
    /\ TabChanged \in events
    /\ EditorUpdatePreview(preview_visible, tabs, selected)
    /\ events' = events \ {TabChanged}
    /\ response' = NoResponse
    /\ UNCHANGED <<tabs, tab_counter, selected, preview_visible, window, dialog, disk,
                   settingsVars, appRest>>

\* a click on the tab of another tab in the notebook
SelectTab ==
    /\ Quiet
    /\ \E tab_id \in DOMAIN tabs \ {selected} : selected' = tab_id
    /\ events' = events \cup {TabChanged}
    /\ response' = NoResponse
    /\ UNCHANGED <<tabs, tab_counter, preview_visible, window, dialog, disk,
                   preview, rendered, pv, settingsVars, appRest>>

\* create_new_tab on the tabs tbs with the counter at counter
TabsAfterCreate(tbs, counter) == WithTab(tbs, counter + 1, NewTab(counter + 1))

\* toolbar + NEW, Command-n, Command-t: create_new_tab
CreateNewTab ==
    /\ Quiet
    /\ tab_counter < MaxTabCounter
    /\ RoomForTab(tabs)
    /\ tab_counter' = tab_counter + 1
    /\ tabs' = TabsAfterCreate(tabs, tab_counter)
    /\ selected' = tab_counter + 1
    /\ events' = events \cup {TabChanged}
    /\ response' = NoResponse
    /\ UNCHANGED <<preview_visible, window, dialog, disk, preview, rendered, pv,
                   settingsVars, appRest>>

\* close_tab past its confirmation: notebook.forget, container.destroy, del self.tabs[tab_id]
ForgetTab(tab_id) ==
    /\ tabs' = [i \in DOMAIN tabs \ {tab_id} |-> tabs[i]]
    /\ selected' = IF tab_id = selected THEN NearestTab(DOMAIN tabs, tab_id) ELSE selected
    /\ events' = {e \in events : e[2] # tab_id} \cup
                 (IF tab_id = selected THEN {TabChanged} ELSE {})

\* right click on a tab, then "Close" of the menu: close_tab(tab_id) up to its
\* confirmation box
OnTabRightClick ==
    /\ Quiet
    /\ CloseOffered(tabs)
    /\ \E tab_id \in DOMAIN tabs :
           IF tabs[tab_id].modified
           THEN /\ dialog' = <<"close", tab_id>>
                /\ UNCHANGED <<tabs, selected, events>>
           ELSE /\ ForgetTab(tab_id)
                /\ UNCHANGED dialog
    /\ response' = NoResponse
    /\ UNCHANGED <<tab_counter, preview_visible, window, disk,
                   preview, rendered, pv, settingsVars, appRest>>

\* close_tab from the answer of askyesno("Close Tab", ...)
AnswerCloseTab ==
    /\ window = "open"
    /\ dialog # <<>>
    /\ dialog[1] = "close"
    /\ \E answer \in {"yes", "no"} :
           /\ response' = <<"close", answer>>
           /\ IF answer = "yes" THEN ForgetTab(dialog[2]) ELSE UNCHANGED <<tabs,
                                                                           selected, events>>
    /\ dialog' = <<>>
    /\ UNCHANGED <<tab_counter, preview_visible, window, disk,
                   preview, rendered, pv, settingsVars, appRest>>

\* toolbar PREVIEW toggle: toggle_preview
TogglePreview ==
    /\ Quiet
    /\ preview_visible' = ~preview_visible
    /\ IF preview_visible
       THEN UNCHANGED <<preview, rendered, pv>>
       ELSE EditorUpdatePreview(TRUE, tabs, selected)
    /\ response' = NoResponse
    /\ UNCHANGED <<tabs, tab_counter, selected, window, dialog, disk, events,
                   settingsVars, appRest>>

\* tab.set_content(content) on the tab t: delete, insert, highlight_syntax,
\* whose on_content_changed is on_tab_modified(tab_id); then modified = False
SetContent(tbs, tab_id, content) ==
    LET filled == [tbs EXCEPT ![tab_id].text = content,
                              ![tab_id].tags = Retag({}, content)]
    IN OnTabModified(filled, tab_id)

\* toolbar OPEN, Command-o: open_file with the file the dialog returned;
\* readable: open() and read() raise nothing
OpenFileInTab ==
    /\ Quiet
    /\ \E filename \in DOMAIN disk, readable \in BOOLEAN :
           /\ SaveLastFolder(Dirname(filename))
           /\ IF ~readable
              THEN /\ response' = NoResponse
                   /\ UNCHANGED <<tabs, tab_counter, selected, events, preview, rendered, pv>>
              ELSE LET content == disk[filename]
                       cur == GetCurrentTab(tabs, selected)
                       reuse == /\ cur # 0
                                /\ GetContent(tabs[cur].text) = <<>>
                                /\ tabs[cur].file_path = NoPath
                       tab == IF reuse THEN cur ELSE tab_counter + 1
                       made == IF reuse THEN tabs ELSE TabsAfterCreate(tabs, tab_counter)
                       changed == made[tab].text # <<>> \/ content # <<>>
                       shown == SetContent(made, tab, content)
                       tbs == [shown EXCEPT ![tab].modified = FALSE,
                                            ![tab].file_path = filename,
                                            ![tab].name = Basename(filename),
                                            ![tab].title = Basename(filename)]
                   IN /\ \/ reuse
                         \/ /\ tab_counter < MaxTabCounter
                            /\ RoomForTab(tabs)
                      /\ tab_counter' = IF reuse THEN tab_counter ELSE tab_counter + 1
                      /\ selected' = tab
                      /\ tabs' = tbs
                      /\ EditorUpdatePreview(preview_visible, tbs, tab)
                      /\ events' = events \cup (IF reuse THEN {} ELSE {TabChanged})
                                          \cup (IF changed THEN {<<"Modified", tab>>} ELSE {})
                      /\ response' = NoResponse
    /\ UNCHANGED <<preview_visible, window, dialog, disk, appRest>>

\* toolbar SAVE, Command-s: save_file; a tab without a file path goes through
\* save_file_as with the file name its dialog returned.  written: open() and
\* write() raise nothing
SaveFile ==
    /\ Quiet
    /\ GetCurrentTab(tabs, selected) # 0
    /\ \E filename \in FilePaths, written \in BOOLEAN :
           LET cur == GetCurrentTab(tabs, selected)
               named == IF tabs[cur].file_path = NoPath
                        THEN [tabs EXCEPT ![cur].file_path = filename,
                                          ![cur].name = Basename(filename)]
                        ELSE tabs
               path == named[cur].file_path
               content == GetContent(named[cur].text)
           IN IF written
              THEN /\ disk' = WriteFile(disk, path, content)
                   /\ SaveLastFolder(Dirname(path))
                   /\ tabs' = [named EXCEPT ![cur].modified = FALSE,
                                            ![cur].title = named[cur].name]
              ELSE /\ tabs' = named
                   /\ UNCHANGED disk
                   /\ UNCHANGED settingsVars
    /\ response' = NoResponse
    /\ UNCHANGED <<tab_counter, selected, preview_visible, window, dialog, events,
                   preview, rendered, pv, appRest>>

\* on_closing: the names of the tabs with modified set
UnsavedTabs(tbs) == {tbs[i].name : i \in {j \in DOMAIN tbs : tbs[j].modified}}

\* WM_DELETE_WINDOW: on_closing up to its askyesnocancel box
OnClosing ==
    /\ Quiet
    /\ IF UnsavedTabs(tabs) # {}
       THEN dialog' = <<"closing">> /\ UNCHANGED window
       ELSE window' = "destroyed" /\ UNCHANGED dialog
    /\ response' = NoResponse
    /\ UNCHANGED <<tabs, tab_counter, selected, preview_visible, disk, events,
                   preview, rendered, pv, settingsVars, appRest>>

\* what the loop over the modified tabs in the Yes branch of on_closing writes
SaveAllOnClose(files, tbs) == files

\* on_closing from the answer of askyesnocancel("Unsaved Changes", ...):
\* None (Cancel) returns, True (Yes) runs the loop over the tabs, then root.destroy()
AnswerClosing ==
    /\ window = "open"
    /\ dialog = <<"closing">>
    /\ \E answer \in {"yes", "no", "cancel"} :
           /\ response' = <<"closing", answer>>
           /\ window' = IF answer = "cancel" THEN "open" ELSE "destroyed"
           /\ disk' = IF answer = "yes" THEN SaveAllOnClose(disk, tabs) ELSE disk
    /\ dialog' = <<>>
    /\ UNCHANGED <<tabs, tab_counter, selected, preview_visible, events,
                   preview, rendered, pv, settingsVars, appRest>>

AppNext ==
    \/ TypeInTab
    \/ PressArrowInTab
    \/ OnTabTextModified
    \/ ReleaseKeyInTab
    \/ OnTabChanged
    \/ SelectTab
    \/ CreateNewTab
    \/ OnTabRightClick
    \/ AnswerCloseTab
    \/ TogglePreview
    \/ OpenFileInTab
    \/ SaveFile
    \/ OnClosing
    \/ AnswerClosing

AppSpec == AppInit /\ [][AppNext]_vars

-----------------------------------------------------------------------------
(* Vocabulary of the properties *)

\* the lines update_preview was last given, one per block
RenderedLines == IF rendered = <<>> THEN <<>> ELSE Split(rendered)

RECURSIVE Flatten(_)
Flatten(ss) == IF ss = <<>> THEN <<>> ELSE Head(ss) \o Flatten(Tail(ss))

Texts(rs) == [j \in 1..Len(rs) |-> rs[j].text]

HeaderCat(n) == <<"h1", "h2", "h3", "h4", "h5", "h6">>[n]

\* length of the block marker the Rule Set gives a line: "# " .. "###### ", "> "
RuleMarkerLen(ln) ==
    IF \E n \in 1..6 : StartsWith(ln, Hashes(n) \o <<" ">>)
    THEN 1 + CHOOSE n \in 1..6 : StartsWith(ln, Hashes(n) \o <<" ">>)
    ELSE IF StartsWith(ln, <<">", " ">>) THEN 2 ELSE 0

IsPlainLine(ln) == RuleMarkerLen(ln) = 0

\* length of the marker of a block of category cat
CatMarkerLen(cat) ==
    CASE cat = "h1" -> 2 [] cat = "h2" -> 3 [] cat = "h3" -> 4 [] cat = "h4" -> 5
      [] cat = "blockquote" -> 2 [] OTHER -> 0

Styled(tag) == tag \in {"bold", "italic", "code", "link"}

OpenDelim(tag) ==
    CASE tag = "bold" -> <<STAR, STAR>> [] tag = "italic" -> <<STAR>>
      [] tag = "code" -> <<TICK>> [] tag = "link" -> <<"[">> [] OTHER -> <<>>

\* what closes the construct of run r in line ln; for a link, "](" url ")"
CloseDelim(r, ln) ==
    CASE r.tag = "bold" -> <<STAR, STAR>> [] r.tag = "italic" -> <<STAR>>
      [] r.tag = "code" -> <<TICK>>
      [] r.tag = "link" -> <<"]", "(">> \o Slice(ln, r.to + 2, Find(ln, <<")">>, r.to + 2))
                               \o <<")">>
      [] OTHER -> <<>>

\* the source range of run r with its delimiters
MatchFrom(r) == r.from - Len(OpenDelim(r.tag))
MatchTo(r, ln) == r.to + Len(CloseDelim(r, ln))

\* the run as it stood in the source
Rewrap(r, ln) == OpenDelim(r.tag) \o r.text \o CloseDelim(r, ln)

\* ranges [lo(j), hi(j)) of rs tile [a, b) in order
Tiles(rs, lo(_), hi(_), a, b) ==
    /\ \A j \in 1..Len(rs) : lo(rs[j]) <= hi(rs[j])
    /\ IF rs = <<>>
       THEN a = b
       ELSE /\ lo(rs[1]) = a
            /\ hi(rs[Len(rs)]) = b
            /\ \A j \in 1..(Len(rs) - 1) : hi(rs[j]) = lo(rs[j + 1])

\* adjacent untagged inserts seen as one Plain run; empty Plain runs dropped
RECURSIVE Coalesce(_)
Coalesce(rs) ==
    IF rs = <<>> THEN <<>>
    ELSE LET rest == Coalesce(Tail(rs))
             r == [tag |-> Head(rs).tag, text |-> Head(rs).text]
         IN IF r.tag = "plain" /\ rest # <<>> /\ rest[1].tag = "plain"
            THEN <<[tag |-> "plain", text |-> r.text \o rest[1].text]>> \o Tail(rest)
            ELSE <<r>> \o rest

-----------------------------------------------------------------------------
(* C1 *)

\* C1 as stated: for every line, the run texts concatenated equal the line with
\* its leading block marker removed (nothing dropped, nothing duplicated).
C1_RunsSpellLine ==
    pv => \A i \in 1..Len(preview) :
            Flatten(Texts(preview[i].runs))
                = SliceFrom(RenderedLines[i], RuleMarkerLen(RenderedLines[i]))

\* C1, amended: there is one block per line, and the run texts of a block, each
\* styled run put back between the delimiters (and link URL) consumed for it,
\* concatenated in order equal the line without the marker of the block emitted
\* for it: only delimiters of matched constructs are dropped, nothing is duplicated.
C1_RunsSpellLineButDelimiters ==
    pv => /\ Len(preview) = Len(RenderedLines)
          /\ \A i \in 1..Len(preview) :
                LET ln == RenderedLines[i]
                    rs == preview[i].runs
                IN Flatten([j \in 1..Len(rs) |-> Rewrap(rs[j], ln)])
                       = SliceFrom(ln, CatMarkerLen(preview[i].cat))

\* a rendered line with a Bold run between Plain text
C1_Witness ==
    /\ pv
    /\ \E i \in 1..Len(preview) : \E j \in 2..(Len(preview[i].runs) - 1) :
          /\ preview[i].runs[j].tag = "bold"
          /\ preview[i].runs[j].text # <<>>
          /\ preview[i].runs[j - 1].tag = "plain"
          /\ preview[i].runs[j + 1].tag = "plain"

-----------------------------------------------------------------------------
(* C2 *)

\* C2 as stated: the runs' character ranges [from, to) partition the content of
\* the line: in increasing order, no overlap, no gap.
C2_RunsPartitionLine ==
    pv => \A i \in 1..Len(preview) :
            LET ln == RenderedLines[i]
                From(r) == r.from
                To(r) == r.to
            IN Tiles(preview[i].runs, From, To, RuleMarkerLen(ln), Len(ln))

\* C2, amended: the runs' ranges are in increasing source order and never
\* overlap, and the only gaps are the delimiters (and link URL) of the matched
\* constructs: the ranges of the runs extended by their own delimiters tile the
\* content of the line, and each delimiter range holds that delimiter.
C2_MatchesPartitionLine ==
    pv => \A i \in 1..Len(preview) :
            LET ln == RenderedLines[i]
                rs == preview[i].runs
                MTo(r) == MatchTo(r, ln)
            IN /\ Tiles(rs, MatchFrom, MTo, CatMarkerLen(preview[i].cat), Len(ln))
               /\ \A j \in 1..Len(rs) :
                     /\ MatchFrom(rs[j]) <= rs[j].from
                     /\ rs[j].from <= rs[j].to
                     /\ rs[j].to <= MTo(rs[j])
                     /\ Slice(ln, MatchFrom(rs[j]), rs[j].from) = OpenDelim(rs[j].tag)
                     /\ Slice(ln, rs[j].to, MTo(rs[j])) = CloseDelim(rs[j], ln)
               /\ \A j \in 1..(Len(rs) - 1) : rs[j].to <= rs[j + 1].from

\* a rendered line in which a Link run is directly followed by another styled run
C2_Witness ==
    /\ pv
    /\ \E i \in 1..Len(preview) : \E j \in 1..(Len(preview[i].runs) - 1) :
          /\ preview[i].runs[j].tag = "link"
          /\ Styled(preview[i].runs[j + 1].tag)
          /\ preview[i].runs[j + 1].text # <<>>

-----------------------------------------------------------------------------
(* C3 *)

\* C3: _render_line terminates without raising on every line: each loop
\* iteration strictly increases pos, pos never exceeds len(line), and the loop
\* exits.
C3_RenderLineTerminates ==
    /\ [][(pc = "loop" /\ pc' = "loop") => pos' > pos]_vars
    /\ [](pos <= Len(line))
    /\ <>(pc = "done")

\* _render_line has returned from a line with an opening marker that nothing
\* closed: every insert was a plain character
C3_Witness ==
    /\ pc = "done"
    /\ \E k \in 1..Len(line) : line[k] \in {STAR, TICK, "["}
    /\ Len(runs) = Len(line)
    /\ \A j \in 1..Len(runs) : runs[j].tag = "plain"

-----------------------------------------------------------------------------
(* C4 *)

\* C4: a line of exactly n '#' (n in 1..6) and a space renders as one block of
\* category Header-n whose single run is the rest of the line, with no inline
\* rule applied to it.
C4_HeaderLevels ==
    pv => \A i \in 1..Len(preview) : \A n \in 1..6 :
            LET ln == RenderedLines[i]
            IN StartsWith(ln, Hashes(n) \o <<" ">>)
                   => preview[i] = Block(HeaderCat(n),
                                         <<Run(HeaderCat(n), ln, n + 1, Len(ln))>>)

-----------------------------------------------------------------------------
(* C5 *)

MarkerChars == {STAR, TICK, "[", "]", "(", ")"}

NoMarker(s) == \A k \in 1..Len(s) : s[k] \notin MarkerChars

\* ln is a plain line whose only marker characters are one opening marker
\* ("*", "**", a backtick or "["), which therefore nothing closes
OneUnclosedMarker(ln) ==
    /\ IsPlainLine(ln)
    /\ \E m \in {<<STAR>>, <<STAR, STAR>>, <<TICK>>, <<"[">>} :
         \E p \in 0..(Len(ln) - Len(m)) :
            /\ Slice(ln, p, p + Len(m)) = m
            /\ NoMarker(Slice(ln, 0, p))
            /\ NoMarker(SliceFrom(ln, p + Len(m)))

\* C5: a plain line with an opening marker that nothing closes gets no styled
\* run: all its characters, the marker's included, are emitted as Plain text.
C5_UnclosedMarkerIsPlain ==
    pv => \A i \in 1..Len(preview) :
            LET ln == RenderedLines[i]
                rs == preview[i].runs
            IN OneUnclosedMarker(ln)
                   => /\ \A j \in 1..Len(rs) : rs[j].tag = "plain"
                      /\ Flatten(Texts(rs)) = ln

-----------------------------------------------------------------------------
(* C6 *)

Ordinary(c) == c \notin MarkerChars \cup {"#", ">", NL}

Seg(tag, ln, a, b) == [tag |-> tag, text |-> Slice(ln, a, b), from |-> a, to |-> b]

BadSeg == [tag |-> "bad", text |-> <<>>, from |-> 0, to |-> 0]

\* the reading of ln from offset p as ordinary characters and closed pairs
\* **inner** / *inner* with non-empty inner text free of markers; a BadSeg ends
\* the reading where ln is not of that form
RECURSIVE EmphSegs(_, _)
EmphSegs(ln, p) ==
    IF p >= Len(ln) THEN <<>>
    ELSE IF At(ln, p) = STAR
    THEN LET n == IF p + 1 < Len(ln) /\ At(ln, p + 1) = STAR THEN 2 ELSE 1
             stars == [k \in 1..n |-> STAR]
             close == Find(ln, <<STAR>>, p + n)
         IN IF /\ close > p + n
               /\ \A k \in (p + n)..(close - 1) : Ordinary(At(ln, k))
               /\ Slice(ln, close, close + n) = stars
            THEN <<Seg(IF n = 2 THEN "bold" ELSE "italic", ln, p + n, close)>>
                     \o EmphSegs(ln, close + n)
            ELSE <<BadSeg>>
    ELSE IF Ordinary(At(ln, p))
    THEN <<Seg("plain", ln, p, p + 1)>> \o EmphSegs(ln, p + 1)
    ELSE <<BadSeg>>

ClosedPairsOnly(ln) ==
    LET segs == EmphSegs(ln, 0)
    IN /\ \A k \in 1..Len(segs) : segs[k].tag # "bad"
       /\ \E k \in 1..Len(segs) : segs[k].tag \in {"bold", "italic"}

\* no '*' stands directly before the opening or after the closing '*' of an italic pair
ItalicsStandAlone(ln) ==
    LET segs == EmphSegs(ln, 0)
    IN \A k \in 1..Len(segs) :
          segs[k].tag = "italic"
              => /\ segs[k].from < 2 \/ At(ln, segs[k].from - 2) # STAR
                 /\ segs[k].to + 1 >= Len(ln) \/ At(ln, segs[k].to + 1) # STAR

-----------------------------------------------------------------------------
(* C7 *)

OrdinaryText(s) == s # <<>> /\ \A k \in 1..Len(s) : Ordinary(s[k])

\* offset of the first sub at or after p; Len(ln) when there is none
Upto(ln, sub, p) == IF Find(ln, sub, p) = -1 THEN Len(ln) ELSE Find(ln, sub, p)

\* a well-formed link [text](url) stands at offset p of ln
LinkAt(ln, p) ==
    LET t == Upto(ln, <<"]">>, p)
        u == Upto(ln, <<")">>, t)
    IN /\ p < Len(ln) /\ At(ln, p) = "["
       /\ OrdinaryText(Slice(ln, p + 1, t))
       /\ Slice(ln, t, t + 2) = <<"]", "(">>
       /\ OrdinaryText(Slice(ln, t + 2, u))
       /\ u < Len(ln)

\* the link at offset p of ln came out as exactly one Link run holding its text,
\* no run holds a bracket, a parenthesis or a character of the url, and the run
\* after it starts past the closing ')'
LinkRendered(rs, ln, p) ==
    LET t == Upto(ln, <<"]">>, p)
        u == Upto(ln, <<")">>, t)
        hits == {j \in 1..Len(rs) : rs[j].tag = "link" /\ rs[j].from = p + 1}
    IN /\ Cardinality(hits) = 1
       /\ \A j \in hits :
             /\ rs[j].text = Slice(ln, p + 1, t)
             /\ j < Len(rs) => MatchFrom(rs[j + 1]) = u + 1
       /\ \A j \in 1..Len(rs) : \A q \in {p} \cup t..u : ~(rs[j].from <= q /\ q < rs[j].to)

\* C7 as stated: every well-formed link of a plain line is rendered so.
C7_LinkRendered ==
    pv => \A i \in 1..Len(preview) :
            LET ln == RenderedLines[i]
            IN IsPlainLine(ln)
                   => \A p \in 0..(Len(ln) - 1) :
                         LinkAt(ln, p) => LinkRendered(preview[i].runs, ln, p)

\* no '*', backtick or '[' stands before offset p of ln
NoOpenerBefore(ln, p) == \A k \in 0..(p - 1) : At(ln, k) \notin {STAR, TICK, "["}

\* C7, amended: every well-formed link of a plain line that no '*', backtick or
\* '[' precedes in the line is rendered so.
C7_LeadingLinkRendered ==
    pv => \A i \in 1..Len(preview) :
            LET ln == RenderedLines[i]
            IN IsPlainLine(ln)
                   => \A p \in 0..(Len(ln) - 1) :
                         LinkAt(ln, p) /\ NoOpenerBefore(ln, p)
                             => LinkRendered(preview[i].runs, ln, p)

\* a rendered plain line with text, then a well-formed link, then more text
C7_Witness ==
    /\ pv
    /\ \E i \in 1..Len(preview) :
          LET ln == RenderedLines[i]
          IN /\ IsPlainLine(ln)
             /\ \E p \in 1..(Len(ln) - 1) :
                   /\ LinkAt(ln, p)
                   /\ NoOpenerBefore(ln, p)
                   /\ Upto(ln, <<")">>, p) < Len(ln) - 1
                   /\ LinkRendered(preview[i].runs, ln, p)

-----------------------------------------------------------------------------
(* C8 *)

\* C8: on the empty text highlight_syntax leaves no tag range and
\* update_preview leaves an empty document, with no block at all.
C8_EmptyInEmptyOut ==
    /\ (hl /\ text = <<>>) => tags = {}
    /\ (pv /\ rendered = <<>>) => preview = <<>>

\* both pipelines have run on the empty text
C8_Witness == text = <<>> /\ hl /\ pv /\ rendered = <<>>

-----------------------------------------------------------------------------
(* C9 *)

Intersect(a, b) == a.start < b.end /\ b.start < a.end

\* C9: on "**[text](url)**" highlight_syntax leaves both a bold range and a
\* link range, and the two intersect.
C9_OverlapKept ==
    (hl /\ text = ScenarioOverlap)
        => \E b \in tags : \E l \in tags :
              b.tag = "bold" /\ l.tag = "link" /\ Intersect(b, l)

\* highlight_syntax has run on "**[text](url)**"
C9_Witness == hl /\ text = ScenarioOverlap /\ tags # {}

-----------------------------------------------------------------------------
(* C10 *)

\* C10: every tag range highlight_syntax leaves satisfies
\* 0 <= start < end <= len(text).
C10_SpansInBuffer ==
    hl => \A s \in tags : 0 <= s.start /\ s.start < s.end /\ s.end <= Len(text)

\* highlight_syntax left a block-level range on the last line and an inline range
C10_Witness ==
    /\ hl
    /\ \E s \in tags : s.tag \in {"h1", "h2", "h3", "h4", "h5", "h6", "blockquote", "list"}
                          /\ s.end = Len(text)
    /\ \E s \in tags : s.tag \in {"bold", "italic", "code", "link"}

-----------------------------------------------------------------------------
(* C14 *)

\* C14: what load_settings() returns has every key of DEFAULT_SETTINGS, whatever
\* the file holds; on an absent or unparsable file it is DEFAULT_SETTINGS; on a
\* JSON object each key of the object has the object's value and every other
\* key its default.
C14_LoadSettingsTotal ==
    loaded =>
        /\ DOMAIN DEFAULT_SETTINGS \subseteq DOMAIN settings
        /\ settings_file.kind \in {"absent", "garbage"} => settings = DEFAULT_SETTINGS
        /\ settings_file.kind = "object" =>
               /\ DOMAIN settings = DOMAIN DEFAULT_SETTINGS \cup DOMAIN settings_file.map
               /\ \A k \in DOMAIN settings :
                      settings[k] = IF k \in DOMAIN settings_file.map
                                    THEN settings_file.map[k]
                                    ELSE DEFAULT_SETTINGS[k]

C14_Witness ==
    /\ loaded
    /\ settings_file.kind = "object"
    /\ DOMAIN settings_file.map = {"editor_bg", "window_width"}
    /\ settings["editor_bg"] = "#ffffff"
    /\ settings["editor_fg"] = DEFAULT_SETTINGS["editor_fg"]

-----------------------------------------------------------------------------
(* C15 *)

BlockTags == {"h1", "h2", "h3", "h4", "h5", "h6", "blockquote", "list"}

\* the characters of the edit buffer under a tag range
SpanText(sp) == Slice(Content(text), sp.start, sp.end)

\* the delimiters a range of tag t can stand between: <<opening, closing>>
Delimiters(t) ==
    CASE t = "bold" -> {<<(<<STAR, STAR>>), (<<STAR, STAR>>)>>, <<(<<"_", "_">>), (<<"_", "_">>)>>}
      [] t = "italic" -> {<<(<<STAR>>), (<<STAR>>)>>, <<(<<"_">>), (<<"_">>)>>}
      [] t = "code" -> {<<(<<TICK>>), (<<TICK>>)>>}
      [] t = "link" -> {<<(<<"[">>), (<<"]", "(">>)>>}
      [] OTHER -> {}

InlineRanges == {sp \in tags : sp.tag \notin BlockTags}

\* C15 as stated: every bold, italic, code and link range covers the inner
\* content of its match only: the opening delimiter ends where the range starts
\* and the closing delimiter (for a link, "](" and the url) starts where it ends.
C15_SpansCoverInnerOnly ==
    hl => \A sp \in InlineRanges :
              \E d \in Delimiters(sp.tag) :
                  /\ sp.start >= Len(d[1])
                  /\ OccursAt(Content(text), d[1], sp.start - Len(d[1]))
                  /\ OccursAt(Content(text), d[2], sp.end)

\* C15, amended: every bold, italic, code and link range covers its whole match,
\* delimiters included: it starts with the opening delimiter and ends with the
\* closing one, with at least one character and no newline between them, and a
\* link range runs from "[" to the ")" that closes the url.
C15_SpansCoverWholeMatch ==
    hl => \A sp \in InlineRanges :
              LET t == SpanText(sp)
              IN /\ NoNewline(t, 0, Len(t))
                 /\ IF sp.tag = "link"
                    THEN /\ At(t, 0) = "["
                         /\ At(t, Len(t) - 1) = ")"
                         /\ \E i \in 2..(Len(t) - 3) : OccursAt(t, <<"]", "(">>, i)
                    ELSE \E d \in Delimiters(sp.tag) :
                             /\ Len(t) > Len(d[1]) + Len(d[1])
                             /\ OccursAt(t, d[1], 0)
                             /\ OccursAt(t, d[1], Len(t) - Len(d[1]))

C15_Witness ==
    /\ hl
    /\ \E b \in tags : b.tag = "bold" /\ SpanText(b) = BoldToken
    /\ \E l \in tags : l.tag = "link" /\ SpanText(l) = LinkToken

-----------------------------------------------------------------------------
(* C16 *)

\* the offsets of the four delimiter characters of a bold range
BoldDelimiterOffsets(b) == {b.start, b.start + 1, b.end - 2, b.end - 1}

\* C16: no italic range contains a delimiter character of a bold range made of
\* the same marker ('*' for "**x**", '_' for "__x__").
C16_ItalicAvoidsBoldDelimiters ==
    hl => \A b \in tags : \A i \in tags :
              (/\ b.tag = "bold"
               /\ i.tag = "italic"
               /\ At(Content(text), i.start) = At(Content(text), b.start))
                  => \A o \in BoldDelimiterOffsets(b) : ~(i.start <= o /\ o < i.end)

-----------------------------------------------------------------------------
(* C17 *)

\* the physical lines of the buffer, found from its newlines: [from, to)
PhysicalLines ==
    LET c == Content(text)
    IN {r \in [from : 0..Len(c), to : 0..Len(c)] :
            /\ r.from <= r.to
            /\ r.from = 0 \/ At(c, r.from - 1) = NL
            /\ r.to = Len(c) \/ At(c, r.to) = NL
            /\ NoNewline(c, r.from, r.to)}

\* the length of the run of '#' a line starts with
RECURSIVE LeadingHashes(_)
LeadingHashes(ln) ==
    IF ln # <<>> /\ Head(ln) = "#" THEN 1 + LeadingHashes(Tail(ln)) ELSE 0

\* the block category of a line by the rules in their order: 1 to 6 '#' and a
\* space, "> ", then '*' or '-' or digits and '.' before white space
BlockCategory(ln) ==
    LET n == LeadingHashes(ln)
        digits == {k \in 1..Len(ln) : \A j \in 1..k : ln[j] \in {"0", "1", "2", "3", "4", "5", "6", "7", "8", "9"}}
    IN IF n \in 1..6 /\ Len(ln) > n /\ ln[n + 1] = " "
       THEN <<"h1", "h2", "h3", "h4", "h5", "h6">>[n]
       ELSE IF Len(ln) >= 2 /\ ln[1] = ">" /\ ln[2] = " "
       THEN "blockquote"
       ELSE IF Len(ln) >= 2 /\ ln[1] \in {STAR, "-"} /\ IsSpace(ln[2])
       THEN "list"
       ELSE IF \E k \in digits : Len(ln) >= k + 2 /\ ln[k + 1] = "." /\ IsSpace(ln[k + 2])
       THEN "list"
       ELSE "none"

\* C17: every block-level range is exactly one physical line; a line that a
\* block rule matches has one block-level range, of the first matching rule's
\* tag; a line no rule matches has none.
C17_OneBlockSpanPerLine ==
    hl => LET blocks == {sp \in tags : sp.tag \in BlockTags}
          IN /\ \A sp \in blocks :
                    \E r \in PhysicalLines : sp.start = r.from /\ sp.end = r.to
             /\ \A r \in PhysicalLines :
                    LET on == {sp \in blocks : sp.start = r.from}
                        cat == BlockCategory(Slice(Content(text), r.from, r.to))
                    IN IF cat = "none"
                       THEN on = {}
                       ELSE on = {Span(cat, r.from, r.to)}

C17_Witness ==
    /\ hl
    /\ \E sp \in tags : sp.tag \in BlockTags /\ sp.start > 0
    /\ \E r \in PhysicalLines :
           /\ r.to > r.from
           /\ \A sp \in tags : sp.tag \in BlockTags => sp.start # r.from

-----------------------------------------------------------------------------
(* C11 *)

\* C11: when highlight_syntax returns, the tag ranges on the buffer are those
\* of the buffer's text and nothing else, whatever ranges were on it at the
\* call; run again on the same text it leaves them as they are.
C11_SpansOfCurrentTextOnly ==
    [][hl' => /\ tags' = Annotate(Content(text'))
              /\ (hl /\ text' = text) => tags' = tags]_vars

\* highlight_syntax has run on a buffer changed in the middle after an earlier
\* run had left ranges on it
C11_Witness ==
    /\ hl
    /\ pending = {}
    /\ tags # {}
    /\ cursor < Len(text)
    /\ cursor > 0

-----------------------------------------------------------------------------
(* C18 *)

\* C18: once no event of the edit buffer is left to handle, the tag ranges are
\* those of the buffer's text and the preview is the rendering of that text.
C18_BothRerunAfterChange ==
    pending = {} =>
        /\ tags = Annotate(Content(text))
        /\ rendered = GetContent(text)
        /\ preview = RenderDoc(GetContent(text))

-----------------------------------------------------------------------------
(* C19 *)

\* C19: when both pipelines have run on the buffer, a line that highlight_syntax
\* tagged by a block rule, or that update_preview rendered by one, is a line,
\* character for character, of the text the other received.
C19_SameTextToBoth ==
    (hl /\ pv /\ pending = {}) =>
        LET scanned == Split(Content(text))
            shown == Split(rendered)
        IN /\ \A k \in 1..Len(scanned) :
                  BlockTag(scanned[k]) # "" => \E j \in 1..Len(shown) : shown[j] = scanned[k]
           /\ \A j \in 1..Len(shown) :
                  RenderBlock(shown[j]).cat # "plain" =>
                      \E k \in 1..Len(scanned) : scanned[k] = shown[j]

-----------------------------------------------------------------------------
(* C20 *)

\* c is the first offset in from..(Len(ln) - 1) where sub occurs in ln
FirstAt(ln, sub, from, c) ==
    /\ c >= from
    /\ OccursAt(ln, sub, c)
    /\ \A i \in from..(c - 1) : ~OccursAt(ln, sub, i)

Offsets(ln) == 0..(Len(ln) - 1)

\* the closing offsets of the pair each rule finds at cursor p, none when it
\* does not match there
BoldCloses(ln, p) ==
    {e \in Offsets(ln) : OccursAt(ln, <<STAR, STAR>>, p) /\ FirstAt(ln, <<STAR, STAR>>, p + 2, e)}

ItalicCloses(ln, p) ==
    {e \in Offsets(ln) :
        /\ At(ln, p) = STAR
        /\ p > 0 => At(ln, p - 1) # STAR
        /\ FirstAt(ln, <<STAR>>, p + 1, e)
        /\ e + 1 < Len(ln) => At(ln, e + 1) # STAR}

CodeCloses(ln, p) ==
    {e \in Offsets(ln) : At(ln, p) = TICK /\ FirstAt(ln, <<TICK>>, p + 1, e)}

\* for a link, <<offset of "]", offset of ")">>
LinkCloses(ln, p) ==
    {te \in Offsets(ln) \X Offsets(ln) :
        /\ At(ln, p) = "["
        /\ FirstAt(ln, <<"]">>, p, te[1])
        /\ OccursAt(ln, <<"(">>, te[1] + 1)
        /\ FirstAt(ln, <<")">>, te[1] + 2, te[2])}

\* the insert of one iteration: tag t over line[a:b]
Emits(t, a, b) ==
    /\ runs' = Append(runs, [tag |-> t, text |-> Slice(line, a, b), from |-> a, to |-> b])

\* C20: an iteration of the loop at cursor pos applies the first rule that
\* matches there, in the order bold, italic, code, link: it inserts the inner
\* text with the rule's tag and puts the cursor just after the closing
\* delimiter (for a link, after the ')' of the url); when no rule matches it
\* inserts line[pos] untagged and advances the cursor by one.
C20_FirstRuleWins ==
    [][(pc = "loop" /\ pos < Len(line) /\ runs' # runs) =>
          IF BoldCloses(line, pos) # {}
          THEN \E e \in BoldCloses(line, pos) : Emits("bold", pos + 2, e) /\ pos' = e + 2
          ELSE IF ItalicCloses(line, pos) # {}
          THEN \E e \in ItalicCloses(line, pos) : Emits("italic", pos + 1, e) /\ pos' = e + 1
          ELSE IF CodeCloses(line, pos) # {}
          THEN \E e \in CodeCloses(line, pos) : Emits("code", pos + 1, e) /\ pos' = e + 1
          ELSE IF LinkCloses(line, pos) # {}
          THEN \E te \in LinkCloses(line, pos) :
                   Emits("link", pos + 1, te[1]) /\ pos' = te[2] + 1
          ELSE Emits("plain", pos, pos + 1) /\ pos' = pos + 1]_vars

\* _render_line has returned from a line that opens with a bold pair, which
\* the italic rule matches too, and goes on with a code span, a link or plain
\* characters
C20_Witness ==
    /\ pc = "done"
    /\ Len(runs) = 3
    /\ runs[1].tag = "bold" /\ runs[1].text = <<"b">>
    /\ runs[2].tag = "code"
    /\ runs[3].tag = "link"

-----------------------------------------------------------------------------
(* C12 *)

\* C12: for a text that holds the image "![a](u)", markdown_to_html gives an
\* <img> element and update_preview an Image run.
C12_ImageIsImage ==
    (\E p \in 0..Len(text) : OccursAt(text, ImageToken, p)) =>
        /\ html # <<>> => \E i \in 1..Len(html) : html[i] = "<img src=\""
        /\ pv => \E k \in 1..Len(preview) : \E j \in 1..Len(preview[k].runs) :
                     preview[k].runs[j].tag = "image"

-----------------------------------------------------------------------------
(* C13 *)

\* C13: for a text that holds the fenced text "```c```", on one line or on
\* three, markdown_to_html gives a <pre><code> element and no inline <code>
\* element, and update_preview a CodeBlock block and no inline code run.
C13_FenceIsCodeBlock ==
    (\E p \in 0..Len(text) : OccursAt(text, FenceToken, p) \/ OccursAt(text, FenceLines, p)) =>
        /\ html # <<>> =>
               /\ \E i \in 1..Len(html) : html[i] = "<pre><code>"
               /\ \A i \in 1..Len(html) : html[i] # "<code>"
        /\ pv =>
               /\ \E k \in 1..Len(preview) : preview[k].cat = "codeblock"
               /\ \A k \in 1..Len(preview) : \A j \in 1..Len(preview[k].runs) :
                      preview[k].runs[j].tag # "code"

-----------------------------------------------------------------------------
(* The editor window *)

\* the preview document update_preview gives for the selected tab
SelectedRender == RenderDoc(GetContent(tabs[selected].text))

\* C21: whenever the preview is shown and no event is pending, the preview
\* document is the render of the selected tab's content and of nothing else;
\* a step that starts and ends with the preview hidden renders nothing, and
\* the step that shows the preview again renders the selected tab.
C21_PreviewShowsSelectedTab ==
    /\ [](preview_visible /\ events = {} => preview = SelectedRender)
    /\ [][/\ (~preview_visible /\ ~preview_visible') => UNCHANGED <<preview, rendered, pv>>
          /\ (~preview_visible /\ preview_visible') =>
                 preview' = RenderDoc(GetContent(tabs'[selected'].text))]_vars

\* two tabs with different renders, the selected one shown in the preview
C21_Witness ==
    /\ preview_visible
    /\ events = {}
    /\ preview # <<>>
    /\ preview = SelectedRender
    /\ \E other \in DOMAIN tabs \ {selected} :
           /\ tabs[other].text # <<>>
           /\ RenderDoc(GetContent(tabs[other].text)) # preview

\* the tab is saved: its file holds its content
Saved(t) == t.file_path \in DOMAIN disk /\ disk[t.file_path] = GetContent(t.text)

\* C22: once the window is destroyed after Yes to "Save changes before
\* closing?", the content of every tab that was modified is in its file.
C22_YesSavesModifiedTabs ==
    (window = "destroyed" /\ response = <<"closing", "yes">>) =>
        \A tab_id \in DOMAIN tabs : tabs[tab_id].modified => Saved(tabs[tab_id])

\* C23: the notebook always holds a tab and every open tab has an id handed
\* out by the counter; a tab that appears carries an id above all ids handed
\* out before, so no id is used twice; a tab disappears only while more than
\* one is open, and the step that answers No to the confirmation of close_tab
\* leaves the tabs as they are.
C23_TabsNeverEmptyIdsFresh ==
    /\ [](DOMAIN tabs # {} /\ DOMAIN tabs \subseteq 1..tab_counter)
    /\ [][/\ \A tab_id \in DOMAIN tabs' \ DOMAIN tabs : tab_id > tab_counter
          /\ tab_counter' >= tab_counter
          /\ (DOMAIN tabs \ DOMAIN tabs' # {}) => Cardinality(DOMAIN tabs) > 1
          /\ (response' = <<"close", "no">>) => tabs' = tabs]_vars

\* tab 1 was closed, tab 3 came after it, and the close of a modified tab was declined
C23_Witness ==
    /\ response = <<"close", "no">>
    /\ tab_counter = 3
    /\ DOMAIN tabs = {2, 3}
    /\ \E tab_id \in DOMAIN tabs : tabs[tab_id].modified

TitleStarred(t) == StartsWith(t.title, <<STAR>>)

\* C24: once no event is pending, the title of every tab whose name does not
\* begin with '*' begins with '*' exactly when the tab's modified flag is set;
\* and a step in which save_file writes the file leaves the selected tab
\* unmodified, titled with its stored name, its content in its file.
C24_TitleStarIffModified ==
    /\ [](events = {} =>
             \A tab_id \in DOMAIN tabs :
                 ~StartsWith(tabs[tab_id].name, <<STAR>>) =>
                     (TitleStarred(tabs[tab_id]) <=> tabs[tab_id].modified))
    /\ [][disk' # disk =>
             LET t == tabs'[selected']
             IN /\ ~t.modified
                /\ t.title = t.name
                /\ t.file_path \in DOMAIN disk'
                /\ disk'[t.file_path] = GetContent(t.text)]_vars

\* a file opened, edited and saved in one tab, next to a modified tab
C24_Witness ==
    /\ events = {}
    /\ \E tab_id \in DOMAIN tabs :
           /\ ~tabs[tab_id].modified
           /\ tabs[tab_id].text = <<"#", " ", "a", "a">>
           /\ tabs[tab_id].title = tabs[tab_id].name
           /\ Saved(tabs[tab_id])
    /\ \E tab_id \in DOMAIN tabs : tabs[tab_id].modified /\ TitleStarred(tabs[tab_id])

====
